---- MODULE Spec2Model ----
(***************************************************************************)
(* A model of the fast-pseudoprimes meet-in-the-middle sieve: the fixed-M  *)
(* reducer, the Gray-code subset-product iterator, the atomic bit array,   *)
(* the Bloom filter, the thread pool and the three phase orchestrators.    *)
(*                                                                         *)
(* TLC's integers are 32 bits wide, so a u64 or u128 of the program is a   *)
(* little-endian sequence of bytes (8 or 16 of them) and the arithmetic    *)
(* of the program is carried out on these sequences at its real width.     *)
(***************************************************************************)
EXTENDS Integers, Sequences, FiniteSets, TLC

VARIABLES
    \* --- modulus.rs: one call of a Modulus operation
    op_a, op_b, op_kind, op_res,
    \* --- gray_prod_iter.rs: a ProductSet, the arguments of ProductIter::new,
    \*     the iterator's fields and the pairs it has yielded
    product_set, it_start, it_pc, it_next, it_end, it_out, it_nones,
    \* --- bitset/: two bit arrays, their contents before the last cross_or,
    \*     the cross_or calls made, those made since the last insert
    bs, bs_pre, bs_ors, bs_streak, bs_pc,
    \* --- bloomfilter/conc_bloom.rs: two filters, the items put into each,
    \*     the cross_or calls made and whether a put followed the last one
    bf, bf_put, bf_ors, bf_dirty, bf_pc,
    \* --- numa_threadpool.rs: the pool's variant, its queue, its workers, the
    \*     position of the thread that owns the pool, the tasks it submitted,
    \*     the workers that started each task and how each task fares
    tp_variant, tp_queue, tp_w, tp_main, tp_submitted, tp_joined, tp_by, tp_task,
    \* --- bloomfilter/mod.rs, main.rs: the inputs of the run, the function
    \*     main is in, its ProductSet, the filter of each node, the iterator of the task each
    \*     worker runs, the results channel of build_t2, the tasks whose
    \*     vector was received, the pairs inserted into the map in order, the
    \*     map, the results of final_sieve, the T3 misses, and whether a task
    \*     was still running when the next phase set up its pool
    pp_cfg, pp_phase, pp_ps, pp_filters, pp_it, pp_chan, pp_recv, pp_ins, pp_map,
    pp_results, pp_misses, pp_overlap,
    \* --- bitset/: one bit array shared by threads, the modification order
    \*     of each of its words, the place in it each thread has seen, the
    \*     threads' positions, the calls made, the indices inserted, the
    \*     bits each thread knows to be set, what contains() answered wrongly
    \*     during the race, and its answers after the threads were joined
    cc_bs, cc_hist, cc_view, cc_pc, cc_main, cc_ops, cc_ins, cc_seen, cc_bad, cc_final,
    \* --- magic_numbers.rs: the arguments of one call of check_prime, the
    \*     answer the primality oracle gave it and what it returned
    cp_min_n, cp_t1, cp_t2, cp_t1_mask, cp_t2_mask, cp_pc, cp_answer, cp_res,
    \* --- bloomfilter/conc_bloom.rs: the size and the number of hashes a
    \*     Builder is asked for, the build profile, the Builder made, the
    \*     filters built from it and where the caller is
    bd_size, bd_hashes, bd_profile, bd_builder, bd_filters, bd_pc,
    \* --- bloomfilter/mod.rs: one phase on a pool whose tasks may fail: the
    \*     phase, the results sent on the channel of build_t2 and the number
    \*     of them the collector has received
    ph_kind, ph_chan, ph_recv,
    \* --- bloomfilter/conc_bloom.rs: one BitSelector: its item, its mask, the
    \*     hash states it iterates over, the number of them consumed, its
    \*     fields locality and local_index, and the indices it has yielded
    sel_item, sel_mask, sel_states, sel_pos, sel_locality, sel_local_index, sel_out,
    \* --- bloomfilter/mod.rs: the loop that submits the tasks of bloom_t1 or
    \*     of build_t2: the phase, the size of the half, the number of tasks,
    \*     the loop counter and the ranges given to the tasks so far
    rg_kind, rg_len, rg_tasks, rg_i, rg_ranges,
    \* --- bloomfilter/conc_bloom.rs: the filters one thread makes: the
    \*     bit-array variant, the size and the number of hashes the program
    \*     asks for, the first key of the next RandomState of the thread,
    \*     the Builders the program holds, each with the filters built from
    \*     it, and the filters BloomFilter::new has returned
    sh_variant, sh_size, sh_hashes, sh_key, sh_builders, sh_news,
    \* --- bloomfilter/mod.rs: one call of final_sieve: its arguments, the
    \*     build profile, the product set, the iterator of each task, the
    \*     results pushed, the counter t3_misses, where the caller is and
    \*     the count of false positives it prints
    fs_in, fs_profile, fs_ps, fs_it, fs_results, fs_misses, fs_pc, fs_fp,
    \* --- progress.rs: one ProgressReporter and its handles: the field
    \*     total, the build profile, the atomics interval and counter, the
    \*     handles (where each is in report, push or drop, with its fields
    \*     interval and local_counter), the sum of the increments passed to
    \*     report so far, and whether the process is running
    pr_total, pr_profile, pr_interval, pr_counter, pr_h, pr_sum, pr_pc

arithVars == <<op_a, op_b, op_kind, op_res>>
iterVars  == <<product_set, it_start, it_pc, it_next, it_end, it_out, it_nones>>
bitsVars  == <<bs, bs_pre, bs_ors, bs_streak, bs_pc>>
bloomVars == <<bf, bf_put, bf_ors, bf_dirty, bf_pc>>

poolVars  == <<tp_variant, tp_queue, tp_w, tp_main, tp_submitted, tp_joined, tp_by, tp_task>>

pipeVars  == <<pp_cfg, pp_phase, pp_ps, pp_filters, pp_it, pp_chan, pp_recv, pp_ins, pp_map,
               pp_results, pp_misses, pp_overlap>>

concVars  == <<cc_bs, cc_hist, cc_view, cc_pc, cc_main, cc_ops, cc_ins, cc_seen, cc_bad, cc_final>>

primeVars == <<cp_min_n, cp_t1, cp_t2, cp_t1_mask, cp_t2_mask, cp_pc, cp_answer, cp_res>>

builderVars == <<bd_size, bd_hashes, bd_profile, bd_builder, bd_filters, bd_pc>>

phaseVars == <<ph_kind, ph_chan, ph_recv>>

selectorVars == <<sel_item, sel_mask, sel_states, sel_pos, sel_locality, sel_local_index, sel_out>>

rangeVars == <<rg_kind, rg_len, rg_tasks, rg_i, rg_ranges>>

shardVars == <<sh_variant, sh_size, sh_hashes, sh_key, sh_builders, sh_news>>

sieveVars == <<fs_in, fs_profile, fs_ps, fs_it, fs_results, fs_misses, fs_pc, fs_fp>>

progressVars == <<pr_total, pr_profile, pr_interval, pr_counter, pr_h, pr_sum, pr_pc>>

vars == <<arithVars, iterVars, bitsVars, bloomVars, poolVars, pipeVars, concVars, primeVars,
         builderVars, phaseVars, selectorVars, rangeVars,
         shardVars,
         sieveVars,
         progressVars>>

\* what the actions of one part leave alone
notArith == <<iterVars, bitsVars, bloomVars, poolVars, pipeVars, concVars, primeVars,
         builderVars, phaseVars, selectorVars, rangeVars,
         shardVars,
         sieveVars,
         progressVars>>
notIter  == <<arithVars, bitsVars, bloomVars, poolVars, pipeVars, concVars, primeVars,
         builderVars, phaseVars, selectorVars, rangeVars,
         shardVars,
         sieveVars,
         progressVars>>
notBits  == <<arithVars, iterVars, bloomVars, poolVars, pipeVars, concVars, primeVars,
         builderVars, phaseVars, selectorVars, rangeVars,
         shardVars,
         sieveVars,
         progressVars>>
notBloom == <<arithVars, iterVars, bitsVars, poolVars, pipeVars, concVars, primeVars,
         builderVars, phaseVars, selectorVars, rangeVars,
         shardVars,
         sieveVars,
         progressVars>>
notPool  == <<arithVars, iterVars, bitsVars, bloomVars, pipeVars, concVars, primeVars,
         builderVars, phaseVars, selectorVars, rangeVars,
         shardVars,
         sieveVars,
         progressVars>>
notPipe  == <<arithVars, iterVars, bitsVars, bloomVars, concVars, primeVars,
         builderVars, phaseVars, selectorVars, rangeVars,
         shardVars,
         sieveVars,
         progressVars>>
notConc  == <<arithVars, iterVars, bitsVars, bloomVars, poolVars, pipeVars, primeVars,
         builderVars, phaseVars, selectorVars, rangeVars,
         shardVars,
         sieveVars,
         progressVars>>
notPrime == <<arithVars, iterVars, bitsVars, bloomVars, poolVars, pipeVars, concVars, builderVars, phaseVars, selectorVars, rangeVars,
         shardVars,
         sieveVars,
         progressVars>>
notBuilder == <<arithVars, iterVars, bitsVars, bloomVars, poolVars, pipeVars, concVars, primeVars, phaseVars, selectorVars, rangeVars,
         shardVars,
         sieveVars,
         progressVars>>
notPhase == <<arithVars, iterVars, bitsVars, bloomVars, pipeVars, concVars, primeVars, builderVars, selectorVars, rangeVars,
         shardVars,
         sieveVars,
         progressVars>>
notSelector == <<arithVars, iterVars, bitsVars, bloomVars, poolVars, pipeVars, concVars, primeVars, builderVars, phaseVars, rangeVars,
         shardVars,
         sieveVars,
         progressVars>>
notRange == <<arithVars, iterVars, bitsVars, bloomVars, poolVars, pipeVars, concVars, primeVars, builderVars, phaseVars, selectorVars,
         shardVars,
         sieveVars,
         progressVars>>
notShard == <<arithVars, iterVars, bitsVars, bloomVars, poolVars, pipeVars, concVars, primeVars,
         builderVars, phaseVars, selectorVars, rangeVars,
         sieveVars,
         progressVars>>
notSieve == <<arithVars, iterVars, bitsVars, bloomVars, poolVars, pipeVars, concVars, primeVars,
         builderVars, phaseVars, selectorVars, rangeVars, shardVars,
         progressVars>>
notProgress == <<arithVars, iterVars, bitsVars, bloomVars, poolVars, pipeVars, concVars, primeVars,
         builderVars, phaseVars, selectorVars, rangeVars, shardVars, sieveVars>>

-----------------------------------------------------------------------------
(* Unsigned integers of the program as little-endian byte sequences.       *)

Base == 256

Digit(x, i) == IF i <= Len(x) THEN x[i] ELSE 0

\* the n-byte representation of a small natural number
ToBytes(v, n) == [i \in 1..n |-> IF i > 4 THEN 0 ELSE (v \div (Base ^ (i - 1))) % Base]

U64(v) == ToBytes(v, 8)

\* x zero-extended or truncated to n bytes ("as u64", "as u128")
Resize(x, n) == [i \in 1..n |-> Digit(x, i)]

RECURSIVE AddFrom(_, _, _, _, _)
AddFrom(x, y, i, n, c) ==
    IF i > n THEN <<>>
    ELSE LET s == Digit(x, i) + Digit(y, i) + c
         IN  <<s % Base>> \o AddFrom(x, y, i + 1, n, s \div Base)

\* (x + y) mod 2^(8n)
BigAdd(x, y, n) == AddFrom(x, y, 1, n, 0)

RECURSIVE SubFrom(_, _, _, _, _)
SubFrom(x, y, i, n, b) ==
    IF i > n THEN <<>>
    ELSE LET d == Digit(x, i) - Digit(y, i) - b
         IN  IF d < 0 THEN <<d + Base>> \o SubFrom(x, y, i + 1, n, 1)
                      ELSE <<d>> \o SubFrom(x, y, i + 1, n, 0)

\* (x - y) mod 2^(8n): the wrapping subtraction
BigSub(x, y, n) == SubFrom(x, y, 1, n, 0)

\* the sum of x[i] * y[k + 1 - i] over the i from lo to hi
RECURSIVE ColSum(_, _, _, _, _)
ColSum(x, y, k, i, hi) ==
    IF i > hi THEN 0 ELSE x[i] * y[k + 1 - i] + ColSum(x, y, k, i + 1, hi)

Max(a, b) == IF a > b THEN a ELSE b
Min(a, b) == IF a < b THEN a ELSE b

RECURSIVE MulFrom(_, _, _, _, _)
MulFrom(x, y, k, n, c) ==
    IF k > n THEN <<>>
    ELSE LET s == c + ColSum(x, y, k, Max(1, k + 1 - Len(y)), Min(k, Len(x)))
         IN  <<s % Base>> \o MulFrom(x, y, k + 1, n, s \div Base)

\* (x * y) mod 2^(8n)
BigMul(x, y, n) == MulFrom(x, y, 1, n, 0)

RECURSIVE LtFrom(_, _, _)
LtFrom(x, y, i) ==
    IF i = 0 THEN FALSE
    ELSE IF Digit(x, i) # Digit(y, i) THEN Digit(x, i) < Digit(y, i)
    ELSE LtFrom(x, y, i - 1)

MaxLen(x, y) == IF Len(x) > Len(y) THEN Len(x) ELSE Len(y)

\* x < y, x = y as unsigned numbers (the lengths may differ)
BigLt(x, y) == LtFrom(x, y, MaxLen(x, y))
BigEq(x, y) == \A i \in 1..MaxLen(x, y) : Digit(x, i) = Digit(y, i)
BigLe(x, y) == ~BigLt(y, x)
BigIsZero(x) == \A i \in 1..Len(x) : x[i] = 0

\* x >> (8 * k), kept at n bytes
ShrBytes(x, k, n) == [i \in 1..n |-> Digit(x, i + k)]

\* x >> b for b < 8, kept at the length of x
ShrBits(x, b) ==
    [i \in 1..Len(x) |-> (x[i] \div (2 ^ b)) + (Digit(x, i + 1) % (2 ^ b)) * (2 ^ (8 - b))]

\* bit i (from 0) of x
BitOf(x, i) == (Digit(x, (i \div 8) + 1) \div (2 ^ (i % 8))) % 2

\* t - d when d <= t, else t
CondSub(t, d, n) == IF BigLe(d, t) THEN BigSub(t, d, n) ELSE t

\* (256 * r + byte) mod m for r < m: eight steps of binary long division,
\* ms[k] being m * 2^(k-1)
ModStep(r, byte, ms, n) ==
    LET t  == <<byte>> \o r
        s7 == CondSub(t,  ms[8], n)
        s6 == CondSub(s7, ms[7], n)
        s5 == CondSub(s6, ms[6], n)
        s4 == CondSub(s5, ms[5], n)
        s3 == CondSub(s4, ms[4], n)
        s2 == CondSub(s3, ms[3], n)
        s1 == CondSub(s2, ms[2], n)
        s0 == CondSub(s1, ms[1], n)
    IN  Resize(s0, n - 2)

RECURSIVE ModFrom(_, _, _, _, _)
ModFrom(x, ms, n, i, r) ==
    IF i = 0 \/ Len(r) # n - 2 THEN r
    ELSE ModFrom(x, ms, n, i - 1, ModStep(r, x[i], ms, n))

\* x mod m by long division, a byte of x at a time (the reference "%" of u128)
BigMod(x, m) ==
    LET n  == Len(m) + 2
        ms == [k \in 1..8 |-> BigMul(m, <<2 ^ (k - 1)>>, n)]
    IN  IF Len(ms) = 8 THEN ModFrom(x, ms, n, Len(x), ToBytes(0, Len(m))) ELSE <<>>

\* the eight bits of one byte of a quotient: s is 256 * r + byte, below 256 * m
RECURSIVE DivBits(_, _, _, _, _)
DivBits(s, ms, n, k, q) ==
    IF k = 0 THEN [r |-> s, q |-> q]
    ELSE IF BigLe(ms[k], s) THEN DivBits(BigSub(s, ms[k], n), ms, n, k - 1, q + 2 ^ (k - 1))
    ELSE DivBits(s, ms, n, k - 1, q)

RECURSIVE DivFrom(_, _, _, _, _, _)
DivFrom(x, ms, n, i, r, q) ==
    IF i = 0 \/ Len(r) # n - 2 \/ Len(q) # Len(x) - i THEN [r |-> r, q |-> q]
    ELSE LET d == DivBits(<<x[i]>> \o r, ms, n, 8, 0)
         IN  DivFrom(x, ms, n, i - 1, Resize(d.r, n - 2), <<d.q>> \o q)

\* x / m and x % m for m # 0, by long division: q has the length of x, r
\* that of m
BigDivMod(x, m) ==
    LET n  == Len(m) + 2
        ms == [k \in 1..8 |-> BigMul(m, <<2 ^ (k - 1)>>, n)]
    IN  DivFrom(x, ms, n, Len(x), ToBytes(0, Len(m)), <<>>)

-----------------------------------------------------------------------------
(* magic_numbers.rs, modulus.rs: the fixed modulus and its reducer.        *)

\* M = 11908862398227544750 = 0xA544C7415D5BFAAE
M == <<174, 250, 91, 93, 65, 199, 68, 165>>

\* M_RECIP = 0x18c8acd8d948f58b6a0fb2d6e1aaecf8
M_RECIP == <<248, 236, 170, 225, 214, 178, 15, 106, 139, 245, 72, 217, 216, 172, 200, 24>>

\* v & LO_64 and v >> 64 of a u128
Lo64(v) == Resize(v, 8)
Hi64(v) == ShrBytes(v, 8, 8)

\* a u128 read as i128 is negative when its top bit is set
IsNegI128(v) == Digit(v, 16) >= 128

\* diff > (M as i128), both as i128
GtM_mutant(diff) == ~IsNegI128(diff) /\ BigLe(M, diff)
GtM(diff) == ~IsNegI128(diff) /\ BigLt(M, diff)

\* reduce_m(v), the build without cfg(test): the quotient estimate and the result
reduce_m_quot_mutant(v) ==
    LET v_hi == Hi64(v)
        m_hi == Hi64(M_RECIP)
    IN  ShrBits(ShrBytes(BigMul(v_hi, m_hi, 16), 7, 16), 4)
reduce_m_quot(v) ==
    LET v_lo == Lo64(v)
        v_hi == Hi64(v)
        m_lo == Lo64(M_RECIP)
        m_hi == Hi64(M_RECIP)
        sum  == BigAdd(BigMul(v_hi, m_lo, 16), BigMul(v_lo, m_hi, 16), 17)
        mid  == Resize(sum, 16)
        overflow == sum[17] # 0
        hi0  == BigMul(v_hi, m_hi, 16)
        hi_128 == BigAdd(IF overflow
                            THEN BigAdd(hi0, <<0, 0, 0, 0, 0, 0, 0, 0, 1>>, 16)
                            ELSE hi0,
                         ShrBytes(mid, 8, 16), 16)
    IN  ShrBits(ShrBytes(hi_128, 7, 16), 4)

reduce_m(v) ==
    LET quot == reduce_m_quot(v)
        mulv == BigMul(quot, M, 16)
        diff == BigSub(v, mulv, 16)
        out  == IF GtM(diff) THEN BigSub(diff, M, 16) ELSE diff
    IN  Resize(out, 8)

\* OptiM::mulmod, BasicDivisor::mulmod
OptiM_mulmod(a, b) == reduce_m(BigMul(a, b, 16))
BasicDivisor_mulmod(m, a, b) == BigMod(BigMul(a, b, 16), m)

\* OptiM::addmod, BasicDivisor::addmod: the sum as u128, reduced, as u64
OptiM_addmod(a, b) ==
    LET r == BigAdd(a, b, 16)
    IN  IF BigLt(M, r) THEN Lo64(BigSub(r, M, 16)) ELSE Lo64(r)
BasicDivisor_addmod(m, a, b) == Lo64(BigMod(BigAdd(a, b, 16), m))

-----------------------------------------------------------------------------
(* u64 indices and masks small enough for TLC are plain integers.          *)

IntBits == 10

BitAt(v, i) == (v \div (2 ^ i)) % 2

RECURSIVE XorFrom(_, _, _)
XorFrom(a, b, i) ==
    IF i = IntBits THEN 0
    ELSE ((BitAt(a, i) + BitAt(b, i)) % 2) * (2 ^ i) + XorFrom(a, b, i + 1)

RECURSIVE AndFrom(_, _, _)
AndFrom(a, b, i) ==
    IF i = IntBits THEN 0
    ELSE (BitAt(a, i) * BitAt(b, i)) * (2 ^ i) + AndFrom(a, b, i + 1)

Xor(a, b) == XorFrom(a, b, 0)
And(a, b) == AndFrom(a, b, 0)

\* u64::leading_zeros
leading_zeros(v) == 64 - Cardinality({i \in 0..(IntBits - 1) : 2 ^ i <= v})

\* (mask as u32)
AsU32(v) == v - ((v \div 65536) \div 65536) * 65536 * 65536

-----------------------------------------------------------------------------
(* modulus.rs: inverse.  The modinverse crate is outside the repository;   *)
(* its results for the values the model uses are tabulated (w = <<>> is    *)
(* None: v shares a factor with m).                                        *)

None == <<>>

\* an i128 is its 16 bytes in two's complement; the wrapping operations on
\* u128 are those on i128
I128(x) == Resize(x, 16)
NegI128(x) == BigSub(I128(<<>>), x, 16)

\* x % m of i128 for m > 0 (below 2^64): the remainder has the sign of x
RemI128(x, m) ==
    IF IsNegI128(x) THEN NegI128(I128(BigMod(NegI128(x), Lo64(m))))
    ELSE I128(BigMod(x, Lo64(m)))

\* egcd(a, b) of the modinverse crate on values of 0..2^64-1 held as i128:
\* (g, x, y) with a*x + b*y = g.  The recursion egcd(b % a, a) is followed
\* down to a = 0, keeping the quotients b / a (the innermost first), and
\* then back up: (x, y) of a call is (y - (b / a) * x, x) of the call it made.
RECURSIVE egcd_calls(_, _, _)
egcd_calls(a, b, qs) ==
    IF BigIsZero(a) \/ Len(b) # 16 \/ Len(qs) < 0 THEN [g |-> b, qs |-> qs]
    ELSE LET d == BigDivMod(Lo64(b), Lo64(a))
         IN  egcd_calls(I128(d.r), a, <<d.q>> \o qs)

RECURSIVE egcd_returns(_, _, _, _)
egcd_returns(qs, i, x, y) ==
    IF i > Len(qs) \/ Len(x) # 16 \/ Len(y) # 16 THEN [x |-> x, y |-> y]
    ELSE egcd_returns(qs, i + 1, BigSub(y, BigMul(I128(qs[i]), x, 16), 16), x)

egcd_result(g, up) == [g |-> g, x |-> up.x, y |-> up.y]
egcd_up(down) == egcd_result(down.g, egcd_returns(down.qs, 1, I128(<<>>), I128(<<1>>)))
egcd(a, b) == egcd_up(egcd_calls(a, b, <<>>))

\* modinverse(a, m) of the modinverse crate: res is "some" with the value
\* w, "none", or "panic" (x % m with m = 0)
modinverse_of(e, m) ==
    IF ~BigEq(e.g, <<1>>) THEN [res |-> "none", w |-> <<>>]
    ELSE IF BigIsZero(m) THEN [res |-> "panic", w |-> <<>>]
    ELSE [res |-> "some", w |-> RemI128(BigAdd(RemI128(e.x, m), m, 16), m)]
modinverse(a, m) == modinverse_of(egcd(a, m), m)

\* OptiM::inverse and BasicDivisor::inverse: modinverse on i128, the result
\* brought into 0..modulus-1 and cast to u64
\* ((result + M) % M) as u64 of a result Some(result)
inverse_cast_none_mutant(r, modulus) ==
    IF r.res = "none" THEN [res |-> "some", w |-> U64(0)] ELSE r
inverse_cast_off_mutant(r, modulus) ==
    IF r.res = "some" THEN [res |-> "some", w |-> Lo64(BigAdd(r.w, <<1>>, 16))] ELSE r
inverse_cast(r, modulus) ==
    IF r.res = "some"
    THEN [res |-> "some", w |-> Lo64(RemI128(BigAdd(r.w, I128(modulus), 16), I128(modulus)))]
    ELSE r
Modulus_inverse(modulus, v) == inverse_cast(modinverse(I128(v), I128(modulus)), modulus)

ModInverseTable ==
    {  [m |-> M, v |-> <<3, 248, 64, 26, 0, 0, 0, 0>>, w |-> <<167, 54, 125, 214, 247, 3, 57, 154>>],        \* R[0] = 440465411
       [m |-> M, v |-> <<219, 204, 20, 18, 0, 0, 0, 0>>, w |-> <<11, 98, 187, 28, 178, 199, 51, 39>>],       \* R[1] = 303353051
       [m |-> M, v |-> <<67, 157, 18, 12, 0, 0, 0, 0>>, w |-> <<115, 91, 198, 50, 58, 19, 228, 5>>],         \* R[2] = 202546499
       [m |-> M, v |-> <<155, 139, 238, 181, 3, 0, 0, 0>>, w |-> <<175, 164, 136, 61, 151, 184, 140, 35>>],  \* R[3] = 15937211291
       [m |-> M, v |-> <<43, 162, 136, 33, 222, 0, 0, 0>>, w |-> <<203, 98, 120, 198, 155, 127, 175, 115>>], \* R[4] = 954045342251
       [m |-> M, v |-> <<99, 195, 8, 35, 4, 0, 0, 0>>, w |-> <<245, 173, 210, 153, 209, 165, 72, 134>>],     \* R[5] = 17767646051
       [m |-> M, v |-> U64(2), w |-> None],
       [m |-> M, v |-> U64(5), w |-> None],
       [m |-> U64(1000003), v |-> U64(3), w |-> U64(666669)],
       [m |-> U64(1000003), v |-> U64(5), w |-> U64(600002)],
       [m |-> U64(1000003), v |-> U64(7), w |-> U64(714288)],
       [m |-> U64(1000003), v |-> U64(11), w |-> U64(727275)] }

\* Some(w) as w, None as None
SomeOrNone(r) == IF r.res = "some" THEN r.w ELSE None

\* modulus.inverse(v) as Some(w) = w or None, for a modulus that is not 0:
\* Modulus_inverse, its values for the elements the iterator and the
\* pipeline are run on being taken from the table (the inverse of an
\* inverse is the value itself)
ModInverse(m, v) ==
    IF \E e \in ModInverseTable : e.m = m /\ e.v = v
    THEN (CHOOSE e \in ModInverseTable : e.m = m /\ e.v = v).w
    ELSE IF \E e \in ModInverseTable : e.m = m /\ e.w = v
    THEN (CHOOSE e \in ModInverseTable : e.m = m /\ e.w = v).v
    ELSE SomeOrNone(Modulus_inverse(m, v))

\* a Modulus value: OptiM{} or BasicDivisor { modulus }
OptiM == [kind |-> "OptiM", modulus |-> M]
BasicDivisor(m) == [kind |-> "BasicDivisor", modulus |-> m]

mulmod(mod, a, b) ==
    IF mod.kind = "OptiM" THEN OptiM_mulmod(a, b)
                          ELSE BasicDivisor_mulmod(mod.modulus, a, b)

\* inverse(xs, modulus): the array of inverses; ok is FALSE when the call
\* panics ("Can't invert"), which it does at the element at
inverse_unwrap(ys) ==
    [ok |-> \A i \in 1..Len(ys) : ys[i] # None,
     ys |-> ys,
     at |-> IF \A i \in 1..Len(ys) : ys[i] # None THEN 0
            ELSE CHOOSE i \in 1..Len(ys) :
                    /\ ys[i] = None
                    /\ \A j \in 1..(i - 1) : ys[j] # None]
inverse(xs, mod) == inverse_unwrap([i \in 1..Len(xs) |-> ModInverse(mod.modulus, xs[i])])

-----------------------------------------------------------------------------
(* gray_prod_iter.rs                                                       *)

\* ProductSet::new
ProductSet_of(elems, inv, mod) ==
    [ok |-> inv.ok, elems |-> elems, inverse |-> inv.ys, modulus |-> mod]
ProductSet_new(elems, mod) == ProductSet_of(elems, inverse(elems, mod), mod)

\* to_gray: the v'th gray codeword
to_gray_mutant(v) == v
to_gray_repeat_mutant(v) == IF v = 3 THEN 0 ELSE Xor(v, v \div 2)
to_gray(v) == Xor(v, v \div 2)

RECURSIVE subsetprod_from(_, _, _, _)
subsetprod_from(v, ps, i, accum) ==
    IF i >= Len(ps.elems) THEN accum
    ELSE subsetprod_from(v, ps, i + 1,
            IF BitAt(v, i) # 0 THEN mulmod(ps.modulus, accum, ps.elems[i + 1])
                               ELSE accum)

\* subsetprod(v, ps): the product of the elements whose bit is set in v
subsetprod(v, ps) == subsetprod_from(v, ps, 0, U64(1))

\* ProductIter::new: the fields (next, end) of the new iterator; ok is FALSE
\* when an assertion fails
ProductIter_new(ps, start, end) ==
    IF start = end THEN [ok |-> TRUE, next |-> None, end |-> end]
    ELSE IF ~(start < end) THEN [ok |-> FALSE]
    ELSE IF ~(Len(ps.elems) < 64) THEN [ok |-> FALSE]
    ELSE IF ~(end <= 2 ^ Len(ps.elems)) THEN [ok |-> FALSE]
    ELSE [ok |-> TRUE, next |-> <<start, subsetprod(to_gray(start), ps)>>, end |-> end]

\* the multiplier of one step of ProductIter::next
twiddle_mutant(ps, next_gray, diff, bit) == ps.elems[bit + 1]
twiddle(ps, next_gray, diff, bit) ==
    IF And(next_gray, diff) # 0 THEN ps.elems[bit + 1] ELSE ps.inverse[bit + 1]

\* ProductIter::next on an iterator with next = Some(..): the item returned
\* and the new value of the field next
ProductIter_next_mutant(ps, next, end) ==
    IF next[1] + 2 >= end
    THEN [item |-> <<to_gray(next[1]), next[2]>>, next |-> None]
    ELSE [item |-> <<to_gray(next[1]), next[2]>>,
          next |-> <<next[1] + 1, subsetprod(to_gray(next[1] + 1), ps)>>]
ProductIter_next(ps, next, end) ==
    LET cur_index  == next[1]
        cur_val    == next[2]
        cur_gray   == to_gray(cur_index)
        next_index == cur_index + 1
        next_gray  == to_gray(next_index)
        diff       == Xor(cur_gray, next_gray)
        bit        == 63 - leading_zeros(diff)
        next_val   == mulmod(ps.modulus, cur_val, twiddle(ps, next_gray, diff, bit))
    IN  IF next_index >= end
        THEN [item |-> <<cur_gray, cur_val>>, next |-> None]
        ELSE [item |-> <<cur_gray, cur_val>>, next |-> <<next_index, next_val>>]

-----------------------------------------------------------------------------
(* bitset/stable.rs, bitset/unstable.rs.  A bit array is its variant, its  *)
(* number of words (blocks) and the set of the indices of its set bits.    *)

\* usize_bits() of stable.rs on a 64-bit target, BITS of unstable.rs
usize_bits == 64
BITS == 32

\* JOB_SIZE of unstable.rs in bytes (128 MiB in the source, scaled)
JOB_SIZE == 8

WordBits(variant) == IF variant = "stable" THEN usize_bits ELSE BITS

\* BitSet::new(capacity)
BitSet_new(variant, capacity) ==
    [variant |-> variant,
     blocks  |-> (capacity + WordBits(variant) - 1) \div WordBits(variant),
     set     |-> {}]

\* the field len of unstable.rs (bytes) and max_index()
BitSet_len(b) == (b.blocks * BITS) \div 8
BitSet_max_index(b) == BitSet_len(b) * 8

\* the page size of the mapping of unstable.rs in bytes (scaled) and the
\* bytes that mmap maps for the arena: len rounded up to whole pages
PAGE_SIZE == 32
BitSet_mapped(b) == ((BitSet_len(b) + PAGE_SIZE - 1) \div PAGE_SIZE) * PAGE_SIZE

\* how an access to bit index fares: "ok", "panic" (the Vec index check of
\* stable.rs, "Element out of range" of unstable.rs) or "fault".  An access
\* of unstable.rs that passes the check but leaves the arena touches the
\* rest of the last mapped page, or memory past the mapping, where it
\* either faults or lands in memory that is not the arena's.
BitSet_access(b, index, lands) ==
    LET block == index \div WordBits(b.variant)
    IN  IF b.variant = "stable"
        THEN IF block < b.blocks THEN "ok" ELSE "panic"
        ELSE IF block * (BITS \div 8) >= BitSet_max_index(b) THEN "panic"
             ELSE IF block * (BITS \div 8) < BitSet_mapped(b) \/ lands THEN "ok"
             ELSE "fault"

\* the bits of the array proper
BitSet_content(b) == {i \in b.set : i \div WordBits(b.variant) < b.blocks}

\* the bits of the word that holds bit index
WordOf(b, index) ==
    {i \in b.set : i \div WordBits(b.variant) = index \div WordBits(b.variant)}

\* BitSet::insert(index) on an access that is "ok": fetch_or on the word
BitSet_insert_mutant(b, index) == [b EXCEPT !.set = (b.set \ WordOf(b, index)) \cup {index}]
BitSet_insert(b, index) == [b EXCEPT !.set = b.set \cup {index}]

\* BitSet::contains(index) on an access that is "ok"
BitSet_contains(b, index) == index \in b.set

\* the stripes [offset, end) of unstable.rs cross_or, from offset on
RECURSIVE Stripes(_, _)
Stripes(offset, len) ==
    LET end == IF offset + JOB_SIZE > len THEN len ELSE offset + JOB_SIZE
    IN  IF end = len THEN {<<offset, end>>}
        ELSE {<<offset, end>>} \cup Stripes(offset + (end - offset), len)

\* the bit indices that a.cross_or(b) visits: the words that zip pairs up
\* (stable.rs), the bytes of the stripes (unstable.rs)
CrossOrVisits_mutant(a, b, i) ==
    IF a.variant = "stable"
    THEN i \div usize_bits < Min(a.blocks, b.blocks)
    ELSE i \div 8 < JOB_SIZE
CrossOrVisits(a, b, i) ==
    IF a.variant = "stable"
    THEN i \div usize_bits < Min(a.blocks, b.blocks)
    ELSE \E st \in Stripes(0, BitSet_len(a)) : st[1] <= i \div 8 /\ i \div 8 < st[2]

\* a.cross_or(b): ok is FALSE when the assertion of unstable.rs fails
BitSet_cross_or(a, b) ==
    [ok |-> a.variant = "stable" \/ BitSet_len(a) = BitSet_len(b),
     a  |-> [a EXCEPT !.set = a.set \cup {i \in b.set : CrossOrVisits(a, b, i)}],
     b  |-> [b EXCEPT !.set = b.set \cup {i \in a.set : CrossOrVisits(a, b, i)}]]

-----------------------------------------------------------------------------
(* bloomfilter/conc_bloom.rs                                               *)

LOCAL_INDEXES == 2
LOCAL_MASK == 255

\* the values a hash takes in the model
HashRange == 1021

\* hasher.finish() of the hasher that RandomState seed builds, fed the bytes
\* of item: a keyed mixing function standing for SipHash
RECURSIVE hash_mix(_, _, _)
hash_mix(h, item, i) ==
    IF i > Len(item) THEN h
    ELSE hash_mix((h * 31 + item[i] + 1) % HashRange, item, i + 1)

hash_finish(seed, item) == hash_mix(seed * 7 + 3, item, 1)

\* Builder::new(size, hashes), hash_states being the RandomStates drawn
Builder_new(size, hash_states) ==
    LET size_bits0 == 64 - leading_zeros(size) - 1
        size_bits  == IF 2 ^ size_bits0 < size THEN size_bits0 + 1 ELSE size_bits0
        size2      == 2 ^ size_bits
    IN  [hash_states |-> hash_states, size |-> size2, mask |-> size2 - 1]

\* Builder::build, Builder::on_node
Builder_build(builder, variant) ==
    [hash_states |-> builder.hash_states,
     bits |-> BitSet_new(variant, builder.size),
     mask |-> builder.mask]

\* the indices BitSelector yields from the j-th hash on
RECURSIVE BitSelector_from(_, _, _, _, _, _)
BitSelector_from(item, mask, hash_states, j, locality, local_index) ==
    IF j > Len(hash_states) THEN <<>>
    ELSE LET hashed == hash_finish(hash_states[j], item)
             offset == IF locality # None THEN locality[1] ELSE 0
             m      == IF locality # None THEN LOCAL_MASK ELSE mask
             index  == And(hashed, m) + offset
             li     == local_index + 1
             loc    == IF li >= LOCAL_INDEXES THEN None
                       ELSE <<index - And(index, LOCAL_MASK)>>
         IN  <<index>> \o BitSelector_from(item, mask, hash_states, j + 1, loc, li)

\* BitSelector::new(val, mask, hash_states.iter()) collected
BitSelector(f, val) == BitSelector_from(val, f.mask, f.hash_states, 1, None, 0)

\* the position of the first index that cannot be accessed, 0 when all can
FirstFault(f, idx, lands) ==
    IF \A j \in 1..Len(idx) : BitSet_access(f.bits, idx[j], lands) = "ok" THEN 0
    ELSE CHOOSE j \in 1..Len(idx) :
            /\ BitSet_access(f.bits, idx[j], lands) # "ok"
            /\ \A h \in 1..(j - 1) : BitSet_access(f.bits, idx[h], lands) = "ok"

RECURSIVE InsertAll(_, _, _)
InsertAll(bits, idx, n) ==
    IF n = 0 THEN bits ELSE BitSet_insert(InsertAll(bits, idx, n - 1), idx[n])

\* BloomFilter::put(val): res is "ok", or "panic"/"fault" from the first
\* insert that fails, the inserts before it being made
BloomFilter_put(f, val, lands) ==
    LET idx   == BitSelector(f, val)
        fault == FirstFault(f, idx, lands)
        n     == IF fault = 0 THEN Len(idx) ELSE fault - 1
    IN  [res |-> IF fault = 0 THEN "ok" ELSE BitSet_access(f.bits, idx[fault], lands),
         f   |-> [f EXCEPT !.bits = InsertAll(f.bits, idx, n)]]

\* BloomFilter::maybe_present(val): the loop returns false at the first bit
\* that is clear, and fails when it reaches an index it cannot access
BloomFilter_maybe_present(f, val, lands) ==
    LET idx == BitSelector(f, val)
        clear == {j \in 1..Len(idx) :
                    /\ BitSet_access(f.bits, idx[j], lands) = "ok"
                    /\ ~BitSet_contains(f.bits, idx[j])}
        fault == FirstFault(f, idx, lands)
    IN  IF fault # 0 /\ \A j \in clear : fault < j
        THEN [res |-> BitSet_access(f.bits, idx[fault], lands), val |-> FALSE]
        ELSE [res |-> "ok", val |-> clear = {}]

\* BloomFilter::cross_or: ok is FALSE when an assertion fails
BloomFilter_cross_or_first_stale_mutant(fa, fb) ==
    IF fa.mask # fb.mask THEN [ok |-> FALSE, a |-> fa, b |-> fb]
    ELSE LET r == BitSet_cross_or(fa.bits, fb.bits)
         IN  [ok |-> r.ok, a |-> fa, b |-> [fb EXCEPT !.bits = r.b]]
BloomFilter_cross_or_mutant(fa, fb) ==
    IF fa.mask # fb.mask THEN [ok |-> FALSE, a |-> fa, b |-> fb]
    ELSE LET r == BitSet_cross_or(fa.bits, fb.bits)
         IN  [ok |-> r.ok, a |-> [fa EXCEPT !.bits = r.a], b |-> fb]
BloomFilter_cross_or_unchecked_mutant(fa, fb) ==
    LET r == BitSet_cross_or(fa.bits, fb.bits)
    IN  [ok |-> r.ok, a |-> [fa EXCEPT !.bits = r.a], b |-> [fb EXCEPT !.bits = r.b]]
BloomFilter_cross_or(fa, fb) ==
    IF fa.mask # fb.mask THEN [ok |-> FALSE, a |-> fa, b |-> fb]
    ELSE LET r == BitSet_cross_or(fa.bits, fb.bits)
         IN  [ok |-> r.ok, a |-> [fa EXCEPT !.bits = r.a], b |-> [fb EXCEPT !.bits = r.b]]

-----------------------------------------------------------------------------
(* One call of a Modulus operation on operands drawn from U64Samples.      *)

\* 64-bit operands: small values, divisors and multiples of M, the values
\* around M and the largest u64
U64Samples ==
    << U64(0), U64(1), U64(2), U64(5),
       <<87, 253, 173, 174, 160, 99, 162, 82>>,      \* M / 2
       <<86, 101, 18, 121, 115, 193, 13, 33>>,        \* M / 5
       <<173, 250, 91, 93, 65, 199, 68, 165>>,        \* M - 1
       M,
       <<175, 250, 91, 93, 65, 199, 68, 165>>,        \* M + 1
       <<255, 255, 255, 255, 255, 255, 255, 255>>,    \* 2^64 - 1
       <<3, 248, 64, 26, 0, 0, 0, 0>>,                \* R[0] = 440465411
       <<0, 0, 0, 0, 1, 0, 0, 0>>,                    \* 2^32
       <<0, 0, 0, 0, 0, 0, 0, 128>> >>                \* 2^63

NumSamples == 11

Operands == {U64Samples[i] : i \in 1..NumSamples}

ArithInit ==
    /\ op_a \in Operands
    /\ op_b \in Operands
    /\ op_kind = "none"
    /\ op_res = <<>>

\* OptiM{}.mulmod(a, b)
CallMulmod ==
    /\ op_kind = "none"
    /\ op_kind' = "mulmod"
    /\ op_res' = OptiM_mulmod(op_a, op_b)
    /\ UNCHANGED <<op_a, op_b>>
    /\ UNCHANGED notArith

\* OptiM{}.addmod(a, b)
CallAddmod ==
    /\ op_kind = "none"
    /\ op_kind' = "addmod"
    /\ op_res' = OptiM_addmod(op_a, op_b)
    /\ UNCHANGED <<op_a, op_b>>
    /\ UNCHANGED notArith

\* OptiM{}.inverse(a)
CallInverseOptiM ==
    /\ op_kind = "none"
    /\ op_kind' = "inverse_optim"
    /\ op_res' = Modulus_inverse(OptiM.modulus, op_a)
    /\ UNCHANGED <<op_a, op_b>>
    /\ UNCHANGED notArith

\* BasicDivisor::new(b).inverse(a)
CallInverseBasic ==
    /\ op_kind = "none"
    /\ op_kind' = "inverse_basic"
    /\ op_res' = Modulus_inverse(BasicDivisor(op_b).modulus, op_a)
    /\ UNCHANGED <<op_a, op_b>>
    /\ UNCHANGED notArith

\* inverse(&[a, b], MODULUS)
CallInverseArray ==
    /\ op_kind = "none"
    /\ op_kind' = "inverse_array"
    /\ op_res' = inverse(<<op_a, op_b>>, OptiM)
    /\ UNCHANGED <<op_a, op_b>>
    /\ UNCHANGED notArith

ArithIdle ==
    /\ op_a = None /\ op_b = None /\ op_kind = "none" /\ op_res = None

ArithNext ==
    CallMulmod \/ CallAddmod \/ CallInverseOptiM \/ CallInverseBasic \/ CallInverseArray

-----------------------------------------------------------------------------
(* One ProductIter over a ProductSet, driven to its end.                   *)

\* the first elements of R (magic_numbers.rs) and the set of scenario S1
R_prefix ==
    << <<3, 248, 64, 26, 0, 0, 0, 0>>, <<219, 204, 20, 18, 0, 0, 0, 0>>,
       <<67, 157, 18, 12, 0, 0, 0, 0>>, <<155, 139, 238, 181, 3, 0, 0, 0>>,
       <<43, 162, 136, 33, 222, 0, 0, 0>>, <<99, 195, 8, 35, 4, 0, 0, 0>> >>

S1_elems == << U64(3), U64(5), U64(7), U64(11) >>

\* the largest set the iterator is run over
MaxElems == 3

\* the calls of next() kept after the iterator is exhausted
MaxNones == 2

IterSets ==
    {ProductSet_new(SubSeq(R_prefix, 1, n), OptiM) : n \in 0..MaxElems}
    \cup {ProductSet_new(SubSeq(S1_elems, 1, n), BasicDivisor(U64(1000003))) : n \in 1..MaxElems}
    \cup {ProductSet_new(S1_elems, BasicDivisor(U64(1000003)))}

IterInit ==
    /\ product_set \in {ps \in IterSets : ps.ok}
    /\ it_start \in 0..(2 ^ Len(product_set.elems) + 1)
    /\ it_end \in 0..(2 ^ Len(product_set.elems) + 1)
    /\ it_pc = "new"
    /\ it_next = None
    /\ it_out = <<>>
    /\ it_nones = 0

\* ProductIter::new(&product_set, start, end)
IterNew ==
    /\ it_pc = "new"
    /\ LET it == ProductIter_new(product_set, it_start, it_end)
       IN  IF ~it.ok
           THEN /\ it_pc' = "panic"
                /\ UNCHANGED <<it_next, it_end>>
           ELSE /\ it_pc' = "iter"
                /\ it_next' = it.next
                /\ it_end' = it.end
    /\ UNCHANGED <<product_set, it_start, it_out, it_nones>>
    /\ UNCHANGED notIter

\* next() returning Some(pair)
IterNextSome ==
    /\ it_pc = "iter"
    /\ it_next # None
    /\ LET r == ProductIter_next(product_set, it_next, it_end)
       IN  /\ it_out' = Append(it_out, r.item)
           /\ it_next' = r.next
    /\ UNCHANGED <<product_set, it_start, it_pc, it_end, it_nones>>
    /\ UNCHANGED notIter

\* next() returning None
IterNextNone ==
    /\ it_pc = "iter"
    /\ it_next = None
    /\ it_nones < MaxNones
    /\ it_nones' = it_nones + 1
    /\ UNCHANGED <<product_set, it_start, it_pc, it_next, it_end, it_out>>
    /\ UNCHANGED notIter

IterIdle ==
    /\ product_set = [ok |-> FALSE] /\ it_start = 0 /\ it_end = 0 /\ it_pc = "idle"
    /\ it_next = None /\ it_out = <<>> /\ it_nones = 0

IterNext == IterNew \/ IterNextSome \/ IterNextNone

-----------------------------------------------------------------------------
(* Two bit arrays of one variant: inserts, then cross_or calls.            *)

Variants == {"stable", "unstable"}

\* the capacities in bits the arrays are built with
BitCaps == <<64, 128, 1024, 100, 2048>>
NumCaps == 3

\* the bit indices inserted
BitIdx == <<0, 1, 64, 512, 1023, 127, 2047>>
NumIdx == 5

\* the bits set over both arrays, the cross_or calls made
MaxInserts == 4
MaxBitOrs == 2

BitsInit ==
    /\ \E variant \in Variants, ca, cb \in {BitCaps[i] : i \in 1..NumCaps} :
            bs = <<BitSet_new(variant, ca), BitSet_new(variant, cb)>>
    /\ bs_pre = <<{}, {}>>
    /\ bs_ors = 0
    /\ bs_streak = 0
    /\ bs_pc = "run"

\* bs[w].insert(i)
BitsInsert ==
    /\ bs_pc = "run"
    /\ Cardinality(bs[1].set) + Cardinality(bs[2].set) < MaxInserts
    /\ \E w \in 1..2, i \in {BitIdx[j] : j \in 1..NumIdx}, lands \in BOOLEAN :
          LET acc == BitSet_access(bs[w], i, lands)
          IN  IF acc = "ok"
              THEN /\ bs' = [bs EXCEPT ![w] = BitSet_insert(bs[w], i)]
                   /\ bs_streak' = 0
                   /\ UNCHANGED bs_pc
              ELSE /\ bs_pc' = acc
                   /\ UNCHANGED <<bs, bs_streak>>
    /\ UNCHANGED <<bs_pre, bs_ors>>
    /\ UNCHANGED notBits

\* bs[1].cross_or(&mut bs[2])
BitsCrossOr ==
    /\ bs_pc = "run"
    /\ bs_ors < MaxBitOrs
    /\ LET r == BitSet_cross_or(bs[1], bs[2])
       IN  IF r.ok
           THEN /\ bs' = <<r.a, r.b>>
                /\ bs_pre' = <<BitSet_content(bs[1]), BitSet_content(bs[2])>>
                /\ bs_ors' = bs_ors + 1
                /\ bs_streak' = bs_streak + 1
                /\ UNCHANGED bs_pc
           ELSE /\ bs_pc' = "panic"
                /\ UNCHANGED <<bs, bs_pre, bs_ors, bs_streak>>
    /\ UNCHANGED notBits

BitsIdle ==
    /\ bs = <<>> /\ bs_pre = <<>> /\ bs_ors = 0 /\ bs_streak = 0 /\ bs_pc = "idle"

BitsNext == BitsInsert \/ BitsCrossOr

-----------------------------------------------------------------------------
(* Two Bloom filters: puts, probes and cross_or calls.                     *)

\* the sizes requested of the constructor
BloomSizes == <<100, 256, 512, 1, 1000>>
NumSizes == 2

\* the hash counts, the RandomState seeds, the cross_or calls made
MaxHashes == 2
MaxSeed == 0
MaxBloomOrs == 1

\* the items put and probed (those of scenario S3 among them)
BloomItems == << U64(17), U64(42), U64(1001), U64(0), U64(10) >>
NumItems == 2

\* the RandomStates one Builder draws: the keys of one thread, the first
\* key counting up from call to call
HashStates(seed, hashes) == [j \in 1..hashes |-> seed + j - 1]

\* the filters are two shards of one Builder (build and on_node), or the
\* results of two calls of BloomFilter::new on one thread, the second
\* drawing the keys that follow the first's
BloomInit ==
    /\ \E variant \in Variants, shared \in BOOLEAN,
          sa, sb \in {BloomSizes[i] : i \in 1..NumSizes},
          ka, kb \in 1..MaxHashes, seeda \in 0..MaxSeed, seedb \in 0..(MaxSeed + MaxHashes) :
            LET ba == Builder_new(sa, HashStates(seeda, ka))
                bb == Builder_new(sb, HashStates(seedb, kb))
            IN  /\ shared => sb = sa /\ kb = ka /\ seedb = seeda
                /\ ~shared => kb = ka /\ seedb = seeda + ka
                /\ bf = <<Builder_build(ba, variant),
                          Builder_build(IF shared THEN ba ELSE bb, variant)>>
    /\ bf_put = <<{}, {}>>
    /\ bf_ors = 0
    /\ bf_dirty = FALSE
    /\ bf_pc = "run"

\* bf[w].put(v)
BloomPut ==
    /\ bf_pc = "run"
    /\ \E w \in 1..2, v \in {BloomItems[i] : i \in 1..NumItems}, lands \in BOOLEAN :
          LET r == BloomFilter_put(bf[w], v, lands)
          IN  /\ v \notin bf_put[w]
              /\ bf' = [bf EXCEPT ![w] = r.f]
              /\ bf_dirty' = TRUE
              /\ IF r.res = "ok"
                 THEN /\ bf_put' = [bf_put EXCEPT ![w] = @ \cup {v}]
                      /\ UNCHANGED bf_pc
                 ELSE /\ bf_pc' = r.res
                      /\ UNCHANGED bf_put
    /\ UNCHANGED bf_ors
    /\ UNCHANGED notBloom

\* bf[w].maybe_present(v): it changes nothing unless it fails
BloomProbe ==
    /\ bf_pc = "run"
    /\ \E w \in 1..2, v \in {BloomItems[i] : i \in 1..NumItems}, lands \in BOOLEAN :
          LET r == BloomFilter_maybe_present(bf[w], v, lands)
          IN  bf_pc' = IF r.res = "ok" THEN bf_pc ELSE r.res
    /\ UNCHANGED <<bf, bf_put, bf_ors, bf_dirty>>
    /\ UNCHANGED notBloom

\* bf[1].cross_or(&mut bf[2])
BloomCrossOr ==
    /\ bf_pc = "run"
    /\ bf_ors < MaxBloomOrs
    /\ LET r == BloomFilter_cross_or(bf[1], bf[2])
       IN  IF r.ok
           THEN /\ bf' = <<r.a, r.b>>
                /\ bf_ors' = bf_ors + 1
                /\ bf_dirty' = FALSE
                /\ UNCHANGED bf_pc
           ELSE /\ bf_pc' = "panic"
                /\ UNCHANGED <<bf, bf_ors, bf_dirty>>
    /\ UNCHANGED bf_put
    /\ UNCHANGED notBloom

BloomIdle ==
    /\ bf = <<>> /\ bf_put = <<>> /\ bf_ors = 0 /\ bf_dirty = FALSE /\ bf_pc = "idle"

BloomNext == BloomPut \/ BloomProbe \/ BloomCrossOr

-----------------------------------------------------------------------------
(* numa_threadpool.rs: one pool, the thread that owns it and its workers.  *)
(* The queue holds task numbers and Join tokens.  The simple variant is    *)
(* the threadpool crate: a FIFO of jobs, workers that take them, a join    *)
(* that waits until no job is queued or active, and a fresh worker in the  *)
(* place of one whose job panicked.                                        *)

Join == 0

\* WorkQueue::poll on a queue that is not empty
WorkQueue_poll_mutant(queue) == [head |-> Head(queue), queue |-> queue]
WorkQueue_poll_pop_mutant(queue) == [head |-> Head(queue), queue |-> Tail(queue)]
WorkQueue_poll(queue) ==
    [head  |-> Head(queue),
     queue |-> IF Head(queue) = Join THEN queue ELSE Tail(queue)]

\* WorkQueue::push: ok is FALSE when it panics
WorkQueue_push(queue, task) ==
    IF queue # <<>> /\ Head(queue) = Join
    THEN [ok |-> FALSE, queue |-> queue]
    ELSE [ok |-> TRUE, queue |-> Append(queue, task)]

\* WorkQueue::kill
WorkQueue_kill_mutant(queue) == <<Join>> \o queue
WorkQueue_kill(queue) == Append(queue, Join)

\* the workers of the pool, the tasks submitted to it
NumWorkers == 2
MaxTasks == 3

Workers == 1..NumWorkers

\* cvar.notify_one(): one of the waiting workers, if any, wakes up
NotifyOne(ws) ==
    IF \A w \in DOMAIN ws : ws[w].pc # "wait" THEN {ws}
    ELSE {[ws EXCEPT ![w].pc = "poll"] : w \in {x \in DOMAIN ws : ws[x].pc = "wait"}}

\* cvar.notify_all()
NotifyAll(ws) ==
    [w \in DOMAIN ws |-> IF ws[w].pc = "wait" THEN [ws[w] EXCEPT !.pc = "poll"] ELSE ws[w]]

\* ThreadPool::new: the threads are spawned, the queue is empty
PoolInit ==
    /\ tp_variant \in {"numa", "simple"}
    /\ tp_queue = <<>>
    /\ tp_w = [w \in Workers |-> [pc |-> IF tp_variant = "numa" THEN "start" ELSE "poll", task |-> 0]]
    /\ tp_main = "submit"
    /\ tp_submitted = 0
    /\ tp_joined = 0
    /\ tp_by = [t \in 1..MaxTasks |-> <<>>]
    /\ tp_task = [t \in 1..MaxTasks |-> "new"]

\* worker(): the thread pins itself to its cpu, and panics if it cannot
WorkerStart ==
    /\ \E w \in DOMAIN tp_w, rv \in {0, 1} :
          /\ tp_w[w].pc = "start"
          /\ tp_w' = [tp_w EXCEPT ![w].pc = IF rv = 0 THEN "poll" ELSE "dead"]
    /\ UNCHANGED <<tp_variant, tp_queue, tp_main, tp_submitted, tp_joined, tp_by, tp_task>>
    /\ UNCHANGED notPool

\* ThreadPool::execute(task)
PoolExecute ==
    /\ tp_main = "submit"
    /\ tp_submitted < MaxTasks
    /\ LET t == tp_submitted + 1
           r == IF tp_variant = "numa" THEN WorkQueue_push(tp_queue, t)
                ELSE [ok |-> TRUE, queue |-> Append(tp_queue, t)]
       IN  IF r.ok
           THEN /\ tp_queue' = r.queue
                /\ tp_submitted' = t
                /\ tp_task' = [tp_task EXCEPT ![t] = "queued"]
                /\ tp_w' \in NotifyOne(tp_w)
                /\ UNCHANGED tp_main
           ELSE /\ tp_main' = "panic"
                /\ UNCHANGED <<tp_queue, tp_submitted, tp_task, tp_w>>
    /\ UNCHANGED <<tp_variant, tp_joined, tp_by>>
    /\ UNCHANGED notPool

\* a worker at the head of its loop: WorkQueue::poll up to the wait, or to
\* its return with a task or with the Join token
WorkerPoll ==
    /\ \E w \in DOMAIN tp_w :
          /\ tp_w[w].pc = "poll"
          /\ IF tp_queue = <<>>
             THEN /\ tp_w' = [tp_w EXCEPT ![w].pc = "wait"]
                  /\ UNCHANGED <<tp_queue, tp_by, tp_task>>
             ELSE LET r == WorkQueue_poll(tp_queue)
                  IN  /\ tp_queue' = r.queue
                      /\ IF r.head = Join
                         THEN /\ tp_w' = [tp_w EXCEPT ![w].pc = "exited"]
                              /\ UNCHANGED <<tp_by, tp_task>>
                         ELSE /\ tp_w' = [tp_w EXCEPT ![w] = [pc |-> "run", task |-> r.head]]
                              /\ tp_by' = [tp_by EXCEPT ![r.head] = Append(@, w)]
                              /\ tp_task' = [tp_task EXCEPT ![r.head] = "running"]
    /\ UNCHANGED <<tp_variant, tp_main, tp_submitted, tp_joined>>
    /\ UNCHANGED notPool

\* cvar.wait returns without a notification
WorkerWake ==
    /\ \E w \in DOMAIN tp_w :
          /\ tp_w[w].pc = "wait"
          /\ tp_w' = [tp_w EXCEPT ![w].pc = "poll"]
    /\ UNCHANGED <<tp_variant, tp_queue, tp_main, tp_submitted, tp_joined, tp_by, tp_task>>
    /\ UNCHANGED notPool

\* the task a worker runs returns, or panics: the panic ends the thread of
\* the numa pool; the simple pool puts a fresh thread in its place
WorkerFinish ==
    /\ \E w \in DOMAIN tp_w, ok \in BOOLEAN :
          /\ tp_w[w].pc = "run"
          /\ tp_task' = [tp_task EXCEPT ![tp_w[w].task] = IF ok THEN "done" ELSE "panicked"]
          /\ tp_w' = [tp_w EXCEPT ![w] =
                        [pc |-> IF ok \/ tp_variant = "simple" THEN "poll" ELSE "dead",
                         task |-> 0]]
    /\ UNCHANGED <<tp_variant, tp_queue, tp_main, tp_submitted, tp_joined, tp_by>>
    /\ UNCHANGED notPool

\* ThreadPool::join, its first step: queue.kill() (numa), pool.join() begins
\* to wait (simple)
PoolJoin ==
    /\ tp_main = "submit"
    /\ tp_main' = "joining"
    /\ IF tp_variant = "numa"
       THEN /\ tp_queue' = WorkQueue_kill(tp_queue)
            /\ tp_w' = NotifyAll(tp_w)
       ELSE UNCHANGED <<tp_queue, tp_w>>
    /\ UNCHANGED <<tp_variant, tp_submitted, tp_joined, tp_by, tp_task>>
    /\ UNCHANGED notPool

\* ThreadPool::join (numa): thread.join().unwrap() on the next thread, which
\* has returned or has panicked
PoolJoinThread ==
    /\ tp_main = "joining"
    /\ tp_variant = "numa"
    /\ tp_joined < Len(tp_w)
    /\ tp_w[tp_joined + 1].pc \in {"exited", "dead"}
    /\ IF tp_w[tp_joined + 1].pc = "exited"
       THEN /\ tp_joined' = tp_joined + 1
            /\ UNCHANGED tp_main
       ELSE /\ tp_main' = "panic"
            /\ UNCHANGED tp_joined
    /\ UNCHANGED <<tp_variant, tp_queue, tp_w, tp_submitted, tp_by, tp_task>>
    /\ UNCHANGED notPool

\* ThreadPool::join returns the contexts: every thread is joined (numa), no
\* job is queued or active (simple)
PoolJoinReturn ==
    /\ tp_main = "joining"
    /\ IF tp_variant = "numa"
       THEN tp_joined = Len(tp_w)
       ELSE tp_queue = <<>> /\ \A w \in DOMAIN tp_w : tp_w[w].pc # "run"
    /\ tp_main' = "returned"
    /\ UNCHANGED <<tp_variant, tp_queue, tp_w, tp_submitted, tp_joined, tp_by, tp_task>>
    /\ UNCHANGED notPool

PoolIdle ==
    /\ tp_variant = "none" /\ tp_queue = <<>> /\ tp_w = <<>> /\ tp_main = "idle"
    /\ tp_submitted = 0 /\ tp_joined = 0 /\ tp_by = <<>> /\ tp_task = <<>>

PoolNext ==
    \/ WorkerStart \/ PoolExecute \/ WorkerPoll \/ WorkerWake \/ WorkerFinish
    \/ PoolJoin \/ PoolJoinThread \/ PoolJoinReturn

\* build_nodes and ThreadPool::new: one thread per cpu of each node; the
\* machine has its cpus 2n-2 and 2n-1 on node n, and cpu 0 is not usable
PoolNodeOf(w) == (w \div 2) + 1

PoolNodes == {PoolNodeOf(w) : w \in DOMAIN tp_w}

\* the strong count of the Arc of node n: the pool's own reference and the
\* clone in the closure of each thread of the node that has not ended
ArcStrong(n) ==
    1 + Cardinality({w \in DOMAIN tp_w :
                        PoolNodeOf(w) = n /\ tp_w[w].pc \notin {"exited", "dead"}})

\* what ThreadPool::join (numa) makes of the nodes once the threads are
\* joined: Arc::try_unwrap gives the node back to its only owner
ThreadPool_join_nodes ==
    [n \in PoolNodes |-> IF ArcStrong(n) = 1 THEN "pair" ELSE "panic"]

\* the scheduler lets every thread that can take a step take one, and every
\* task that runs returns or panics
PoolFairness ==
    /\ WF_vars(PoolExecute \/ PoolJoin \/ PoolJoinThread \/ PoolJoinReturn)
    /\ \A w \in Workers :
          WF_vars((WorkerStart \/ WorkerPoll \/ WorkerFinish) /\ tp_w'[w] # tp_w[w])

-----------------------------------------------------------------------------
(* bloomfilter/mod.rs, magic_numbers.rs, main.rs: the three phases, run on *)
(* the numa pool above.  N_TASKS, FILTER_SIZE and MIN_N are scaled down.   *)

FILTER_SIZE == 256
FILTER_HASHES == 2
N_TASKS == 2

\* MIN_N = 2^512 in the source, above every candidate of fewer than eight
\* factors or so; here 2^32, above the candidates 3 and 1 + 2 * R[i] and
\* below every candidate of two factors of which one is an inverse
MIN_N == [i \in 1..5 |-> IF i = 5 THEN 1 ELSE 0]

\* the index range of task i of bloom_t1 and of build_t2
TaskRange(i, total_work) ==
    LET per_task == total_work \div N_TASKS
    IN  [start |-> per_task * i,
         end   |-> IF i = N_TASKS - 1 THEN total_work ELSE per_task * i + per_task]

\* the index range of a task of final_sieve
FinalRange(task) == [start |-> task * N_TASKS, end |-> task * N_TASKS + N_TASKS]

\* mask_to_big_int: the elements of array that mask selects, after accumulator
RECURSIVE mask_to_big_int(_, _, _, _)
mask_to_big_int(accumulator, mask, array, i) ==
    IF i = 32 \/ mask = 0 THEN accumulator
    ELSE mask_to_big_int(IF mask % 2 = 1 THEN Append(accumulator, array[i + 1])
                                         ELSE accumulator,
                         mask \div 2, array, i + 1)

\* get_vals_to_multiply
get_vals_to_multiply(t1, t2, t1_mask, t2_mask) ==
    mask_to_big_int(mask_to_big_int(<<U64(2)>>, t1_mask, t1, 0), t2_mask, t2, 0)

\* Integer::product of the first n values
RECURSIVE IntegerProduct(_, _)
IntegerProduct(values, n) ==
    IF n = 0 THEN <<1>>
    ELSE BigMul(IntegerProduct(values, n - 1), values[n], 8 * n)

\* the answers of Integer::is_probably_prime
IsPrime == {"No", "Probably", "Yes"}

\* check_prime: None, or <<the pseudoprime found>>.  result is the answer
\* of n_result.is_probably_prime(15), asked only of a number above min_n
check_prime_mutant(min_n, t1, t2, t1_mask, t2_mask, result) ==
    LET values_to_multiply == get_vals_to_multiply(t1, t2, t1_mask, t2_mask)
        product  == IntegerProduct(values_to_multiply, Len(values_to_multiply))
        n_result == BigAdd(product, <<1>>, Len(product) + 1)
    IN  IF BigLe(min_n, n_result) /\ (result = "Probably" \/ result = "Yes")
        THEN << [pseudoprime |-> n_result, factors |-> values_to_multiply] >>
        ELSE None
check_prime(min_n, t1, t2, t1_mask, t2_mask, result) ==
    LET values_to_multiply == get_vals_to_multiply(t1, t2, t1_mask, t2_mask)
        product  == IntegerProduct(values_to_multiply, Len(values_to_multiply))
        n_result == BigAdd(product, <<1>>, Len(product) + 1)
    IN  IF BigLt(min_n, n_result) /\ (result = "Probably" \/ result = "Yes")
        THEN << [pseudoprime |-> n_result, factors |-> values_to_multiply] >>
        ELSE None

\* HashMap::insert, HashMap::get on the map from products to masks
HashMap_insert_mutant(map, k, v) ==
    [x \in DOMAIN map \cup {k} |-> IF x \in DOMAIN map THEN map[x] ELSE v]
HashMap_insert(map, k, v) == [x \in DOMAIN map \cup {k} |-> IF x = k THEN v ELSE map[x]]
HashMap_get(map, k) == IF k \in DOMAIN map THEN <<map[k]>> ELSE None

\* the loop of the collector of build_t2 over one vector received
RECURSIVE InsertVals(_, _, _)
InsertVals(map, vals, n) ==
    IF n = 0 THEN map
    ELSE HashMap_insert(InsertVals(map, vals, n - 1), vals[n][2], vals[n][1])

\* the sizes of the halves T1 = R[0..n1] and T2 = R[3..3+n2]
MaxT1 == 2
MaxT2 == 2

\* T1_INVERSE of magic_numbers.rs
T1_INVERSE(t1) == inverse(t1, OptiM).ys

\* the halves the run is given: prefixes of R of equal size, a T2 that
\* holds the inverse of R[0] twice, so that two of its subsets share a product, which
\* is also a subset product of T1_INVERSE, and a T2 that holds the inverses
\* of R[0] and R[1], so that every subset of a two-element T1 has its
\* product in the map; these two with a T1 that the ranges of final_sieve
\* cover
PipeInputs ==
    {[t1 |-> SubSeq(R_prefix, 1, pr[1]), t2 |-> SubSeq(R_prefix, 4, 3 + pr[2])] :
        pr \in {q \in (1..MaxT1) \X (1..MaxT2) : q[1] = q[2]}}
    \cup {[t1 |-> SubSeq(R_prefix, 1, n1),
           t2 |-> t2] :
        n1 \in {n \in 1..MaxT1 : 2 ^ n = N_TASKS * N_TASKS},
        t2 \in { <<T1_INVERSE(R_prefix)[1], T1_INVERSE(R_prefix)[1]>>,
                 <<T1_INVERSE(R_prefix)[1], T1_INVERSE(R_prefix)[2]>> }}

\* the range of task t (counted from 1) of the phase
PhaseRange(t) ==
    IF pp_phase = "final_sieve" THEN FinalRange(t - 1)
    ELSE TaskRange(t - 1, 2 ^ Len(pp_ps.elems))

\* the machines the run is made on, each the node of every cpu (one worker
\* per cpu): two cpus on one node, one cpu on each of two nodes
Machines == { <<1, 1>>, <<1, 2>> }

\* the node of worker w
NodeOf(w) == pp_cfg.machine[w]

NoIter == [active |-> FALSE, next |-> None, end |-> 0, out |-> <<>>]

\* ThreadPool::new
NewPool ==
    /\ tp_variant' = "numa"
    /\ tp_queue' = <<>>
    /\ tp_w' = [w \in DOMAIN pp_cfg.machine |-> [pc |-> "start", task |-> 0]]
    /\ tp_main' = "submit"
    /\ tp_submitted' = 0
    /\ tp_joined' = 0
    /\ tp_by' = [t \in 1..N_TASKS |-> <<>>]
    /\ tp_task' = [t \in 1..N_TASKS |-> "new"]

\* main has called bloom_t1, which has built the filters and its pool
PipeInit ==
    /\ \E variant \in Variants, machine \in Machines, input \in PipeInputs, seed \in 0..MaxSeed :
          /\ pp_cfg = [variant |-> variant, machine |-> machine,
                       nodes |-> Cardinality({machine[w] : w \in DOMAIN machine}),
                       t1 |-> input.t1, t2 |-> input.t2, seed |-> seed]
          /\ pp_ps = ProductSet_new(T1_INVERSE(input.t1), OptiM)
          /\ pp_filters = [n \in {machine[w] : w \in DOMAIN machine} |->
                Builder_build(Builder_new(FILTER_SIZE, HashStates(seed, FILTER_HASHES)), variant)]
    /\ pp_phase = "bloom_t1"
    /\ pp_it = [w \in DOMAIN pp_cfg.machine |-> NoIter]
    /\ pp_chan = <<>> /\ pp_recv = <<>> /\ pp_ins = <<>> /\ pp_map = <<>>
    /\ pp_results = <<>> /\ pp_misses = 0 /\ pp_overlap = FALSE
    /\ tp_variant = "numa"
    /\ tp_queue = <<>>
    /\ tp_w = [w \in DOMAIN pp_cfg.machine |-> [pc |-> "start", task |-> 0]]
    /\ tp_main = "submit"
    /\ tp_submitted = 0
    /\ tp_joined = 0
    /\ tp_by = [t \in 1..N_TASKS |-> <<>>]
    /\ tp_task = [t \in 1..N_TASKS |-> "new"]

\* one turn of the loop that submits the tasks of a phase: pool.execute
PipeExecute ==
    /\ pp_phase \in {"bloom_t1", "build_t2", "final_sieve"}
    /\ tp_main = "submit"
    /\ tp_submitted < N_TASKS
    /\ LET t == tp_submitted + 1
           r == WorkQueue_push(tp_queue, t)
       IN  IF r.ok
           THEN /\ tp_queue' = r.queue
                /\ tp_submitted' = t
                /\ tp_task' = [tp_task EXCEPT ![t] = "queued"]
                /\ tp_w' \in NotifyOne(tp_w)
                /\ UNCHANGED tp_main
           ELSE /\ tp_main' = "panic"
                /\ UNCHANGED <<tp_queue, tp_submitted, tp_task, tp_w>>
    /\ UNCHANGED <<tp_variant, tp_joined, tp_by>>
    /\ UNCHANGED pipeVars
    /\ UNCHANGED notPipe

\* a worker enters the kernel of its task: ProductIter::new, whose failed
\* assertion ends the worker
PipeTaskBegin ==
    /\ \E w \in DOMAIN tp_w :
          /\ tp_w[w].pc = "run"
          /\ ~pp_it[w].active
          /\ LET rg == PhaseRange(tp_w[w].task)
                 it == ProductIter_new(pp_ps, rg.start, rg.end)
             IN  IF it.ok
                 THEN /\ pp_it' = [pp_it EXCEPT ![w] =
                            [active |-> TRUE, next |-> it.next, end |-> it.end, out |-> <<>>]]
                      /\ UNCHANGED <<tp_w, tp_task>>
                 ELSE /\ tp_w' = [tp_w EXCEPT ![w] = [pc |-> "dead", task |-> 0]]
                      /\ tp_task' = [tp_task EXCEPT ![tp_w[w].task] = "panicked"]
                      /\ UNCHANGED pp_it
    /\ UNCHANGED <<tp_variant, tp_queue, tp_main, tp_submitted, tp_joined, tp_by>>
    /\ UNCHANGED <<pp_cfg, pp_phase, pp_ps, pp_filters, pp_chan, pp_recv, pp_ins, pp_map,
                   pp_results, pp_misses, pp_overlap>>
    /\ UNCHANGED notPipe

\* one turn of the loop of bloom_t1_kernel: filter.put(&v) on the filter of
\* the worker's node
PipeT1Step ==
    /\ pp_phase \in {"bloom_t1", "merge"}
    /\ \E w \in DOMAIN tp_w :
          /\ tp_w[w].pc = "run" /\ pp_it[w].active /\ pp_it[w].next # None
          /\ \E r \in {ProductIter_next(pp_ps, pp_it[w].next, pp_it[w].end)} :
             \E lands \in BOOLEAN :
             \E pr \in {BloomFilter_put(pp_filters[NodeOf(w)], r.item[2], lands)} :
                 /\ pp_filters' = [pp_filters EXCEPT ![NodeOf(w)] = pr.f]
                 /\ IF pr.res = "ok"
                    THEN /\ pp_it' = [pp_it EXCEPT ![w].next = r.next]
                         /\ UNCHANGED <<tp_w, tp_task>>
                    ELSE /\ tp_w' = [tp_w EXCEPT ![w] = [pc |-> "dead", task |-> 0]]
                         /\ tp_task' = [tp_task EXCEPT ![tp_w[w].task] = "panicked"]
                         /\ UNCHANGED pp_it
    /\ UNCHANGED <<tp_variant, tp_queue, tp_main, tp_submitted, tp_joined, tp_by>>
    /\ UNCHANGED <<pp_cfg, pp_phase, pp_ps, pp_chan, pp_recv, pp_ins, pp_map,
                   pp_results, pp_misses, pp_overlap>>
    /\ UNCHANGED notPipe

\* one turn of the loop of build_t2_kernel: filter.maybe_present(&ssp)
PipeT2Step ==
    /\ pp_phase = "build_t2"
    /\ \E w \in DOMAIN tp_w :
          /\ tp_w[w].pc = "run" /\ pp_it[w].active /\ pp_it[w].next # None
          /\ \E r \in {ProductIter_next(pp_ps, pp_it[w].next, pp_it[w].end)} :
             \E lands \in BOOLEAN :
             \E mp \in {BloomFilter_maybe_present(pp_filters[NodeOf(w)], r.item[2], lands)} :
                 IF mp.res = "ok"
                 THEN /\ pp_it' = [pp_it EXCEPT ![w].next = r.next,
                                                ![w].out = IF mp.val
                                                           THEN Append(@, <<AsU32(r.item[1]), r.item[2]>>)
                                                           ELSE @]
                      /\ UNCHANGED <<tp_w, tp_task>>
                 ELSE /\ tp_w' = [tp_w EXCEPT ![w] = [pc |-> "dead", task |-> 0]]
                      /\ tp_task' = [tp_task EXCEPT ![tp_w[w].task] = "panicked"]
                      /\ UNCHANGED pp_it
    /\ UNCHANGED <<tp_variant, tp_queue, tp_main, tp_submitted, tp_joined, tp_by>>
    /\ UNCHANGED <<pp_cfg, pp_phase, pp_ps, pp_filters, pp_chan, pp_recv, pp_ins, pp_map,
                   pp_results, pp_misses, pp_overlap>>
    /\ UNCHANGED notPipe

\* results.lock().unwrap() and guard.push(result): the vector after the push
results_push_mutant(results, result) ==
    IF results = <<>> THEN <<result>> ELSE [results EXCEPT ![Len(results)] = result]
results_push(results, result) == Append(results, result)

\* t3_misses.fetch_add(1, Ordering::Relaxed): the counter after it
t3_misses_fetch_add(t3_misses) == t3_misses + 1

\* one turn of the loop of final_sieve_kernel: t2map.get(&v), check_prime
PipeFinalStep ==
    /\ pp_phase \in {"final_sieve", "done"}
    /\ \E w \in DOMAIN tp_w :
          /\ tp_w[w].pc = "run" /\ pp_it[w].active /\ pp_it[w].next # None
          /\ \E r \in {ProductIter_next(pp_ps, pp_it[w].next, pp_it[w].end)} :
             \E t2_mask \in {HashMap_get(pp_map, r.item[2])} :
             \E result \in IsPrime :
             \E found \in {IF t2_mask = None THEN None
                            ELSE check_prime(MIN_N, pp_cfg.t1, pp_cfg.t2, AsU32(r.item[1]),
                                             t2_mask[1], result)} :
                 /\ pp_it' = [pp_it EXCEPT ![w].next = r.next]
                 /\ pp_results' = IF found # None THEN results_push(pp_results, found[1]) ELSE pp_results
                 /\ pp_misses' = IF t2_mask # None /\ found = None THEN t3_misses_fetch_add(pp_misses)
                                 ELSE pp_misses
    /\ UNCHANGED poolVars
    /\ UNCHANGED <<pp_cfg, pp_phase, pp_ps, pp_filters, pp_chan, pp_recv, pp_ins, pp_map, pp_overlap>>
    /\ UNCHANGED notPipe

\* the kernel returns: the task of build_t2 sends its vector, the task ends
\* and the worker is back at the head of its loop
PipeTaskEnd ==
    /\ \E w \in DOMAIN tp_w :
          /\ tp_w[w].pc = "run" /\ pp_it[w].active /\ pp_it[w].next = None
          /\ pp_chan' = IF pp_phase = "build_t2"
                        THEN Append(pp_chan, [task |-> tp_w[w].task, vals |-> pp_it[w].out])
                        ELSE pp_chan
          /\ pp_it' = [pp_it EXCEPT ![w] = NoIter]
          /\ tp_task' = [tp_task EXCEPT ![tp_w[w].task] = "done"]
          /\ tp_w' = [tp_w EXCEPT ![w] = [pc |-> "poll", task |-> 0]]
    /\ UNCHANGED <<tp_variant, tp_queue, tp_main, tp_submitted, tp_joined, tp_by>>
    /\ UNCHANGED <<pp_cfg, pp_phase, pp_ps, pp_filters, pp_recv, pp_ins, pp_map,
                   pp_results, pp_misses, pp_overlap>>
    /\ UNCHANGED notPipe

\* pool.join() of bloom_t1 and of final_sieve, its first step: queue.kill()
PipeJoin ==
    /\ pp_phase \in {"bloom_t1", "final_sieve"}
    /\ tp_main = "submit"
    /\ tp_submitted = N_TASKS
    /\ tp_main' = "joining"
    /\ tp_queue' = WorkQueue_kill(tp_queue)
    /\ tp_w' = NotifyAll(tp_w)
    /\ UNCHANGED <<tp_variant, tp_submitted, tp_joined, tp_by, tp_task>>
    /\ UNCHANGED pipeVars
    /\ UNCHANGED notPipe

\* pool.join() returns: bloom_t1 goes on to the merge, final_sieve returns
\* its results to main
PipeJoinReturn ==
    /\ pp_phase \in {"bloom_t1", "final_sieve"}
    /\ tp_main = "joining"
    /\ tp_joined = Len(tp_w)
    /\ tp_main' = "returned"
    /\ pp_phase' = IF pp_phase = "bloom_t1" THEN "merge" ELSE "done"
    /\ UNCHANGED <<tp_variant, tp_queue, tp_w, tp_submitted, tp_joined, tp_by, tp_task>>
    /\ UNCHANGED <<pp_cfg, pp_ps, pp_filters, pp_it, pp_chan, pp_recv, pp_ins, pp_map,
                   pp_results, pp_misses, pp_overlap>>
    /\ UNCHANGED notPipe

\* the rest of bloom_t1: the cross_or of the two filters, if there are two;
\* then main calls build_t2, which sets up its pool
PipeMerge ==
    /\ pp_phase = "merge"
    /\ LET r == BloomFilter_cross_or(pp_filters[1], pp_filters[pp_cfg.nodes])
       IN  IF pp_cfg.nodes = 2 /\ ~r.ok
           THEN /\ tp_main' = "panic"
                /\ UNCHANGED <<pp_phase, pp_ps, pp_filters, pp_overlap>>
                /\ UNCHANGED <<tp_variant, tp_queue, tp_w, tp_submitted, tp_joined, tp_by, tp_task>>
           ELSE /\ pp_filters' = IF pp_cfg.nodes = 2 THEN <<r.a, r.b>> ELSE pp_filters
                /\ pp_phase' = "build_t2"
                /\ pp_ps' = ProductSet_new(pp_cfg.t2, OptiM)
                /\ pp_overlap' = (pp_overlap \/ \E w \in DOMAIN tp_w : tp_w[w].pc = "run")
                /\ NewPool
    /\ UNCHANGED <<pp_cfg, pp_it, pp_chan, pp_recv, pp_ins, pp_map, pp_results, pp_misses>>
    /\ UNCHANGED notPipe

\* one turn of the collector of build_t2: rx.recv() and the inserts of the
\* vector received
PipeRecv ==
    /\ pp_phase = "build_t2"
    /\ tp_main = "submit"
    /\ tp_submitted = N_TASKS
    /\ Len(pp_recv) < N_TASKS
    /\ pp_chan # <<>>
    /\ pp_map' = InsertVals(pp_map, Head(pp_chan).vals, Len(Head(pp_chan).vals))
    /\ pp_ins' = pp_ins \o Head(pp_chan).vals
    /\ pp_recv' = Append(pp_recv, Head(pp_chan).task)
    /\ pp_chan' = Tail(pp_chan)
    /\ UNCHANGED poolVars
    /\ UNCHANGED <<pp_cfg, pp_phase, pp_ps, pp_filters, pp_it, pp_results, pp_misses, pp_overlap>>
    /\ UNCHANGED notPipe

\* build_t2 returns the map; main calls final_sieve, which sets up its pool
PipeT2Return ==
    /\ pp_phase = "build_t2"
    /\ tp_main = "submit"
    /\ tp_submitted = N_TASKS
    /\ Len(pp_recv) = N_TASKS
    /\ pp_phase' = "final_sieve"
    /\ pp_ps' = ProductSet_new(T1_INVERSE(pp_cfg.t1), OptiM)
    /\ pp_overlap' = (pp_overlap \/ \E w \in DOMAIN tp_w : tp_w[w].pc = "run")
    /\ NewPool
    /\ UNCHANGED <<pp_cfg, pp_filters, pp_it, pp_chan, pp_recv, pp_ins, pp_map,
                   pp_results, pp_misses>>
    /\ UNCHANGED notPipe

PipeIdle ==
    /\ pp_cfg = <<>> /\ pp_phase = "idle" /\ pp_ps = <<>> /\ pp_filters = <<>> /\ pp_it = <<>>
    /\ pp_chan = <<>> /\ pp_recv = <<>> /\ pp_ins = <<>> /\ pp_map = <<>>
    /\ pp_results = <<>> /\ pp_misses = 0 /\ pp_overlap = FALSE

PipeNext ==
    \/ PipeExecute \/ WorkerStart \/ WorkerPoll \/ WorkerWake
    \/ PipeTaskBegin \/ PipeT1Step \/ PipeT2Step \/ PipeFinalStep \/ PipeTaskEnd
    \/ PipeJoin \/ PoolJoinThread \/ PipeJoinReturn
    \/ PipeMerge \/ PipeRecv \/ PipeT2Return

-----------------------------------------------------------------------------
(* One bit array shared by threads that call insert and contains at will,  *)
(* then joined by the thread that made it.  insert and contains each make  *)
(* one access to shared memory (fetch_or, load), so each is one step.  The *)
(* accesses of stable.rs are Relaxed: a load returns any value of the      *)
(* word's modification order that is not older than one the thread has     *)
(* seen, a fetch_or acts on the latest.  Those of unstable.rs              *)
(* (atomic_or, atomic_load) are sequentially consistent.                   *)

\* the capacity of the shared array in bits and the indices the threads use
ConcCap == 128
ConcIdx == <<0, 1, 64, 65, 33, 127>>
NumConcIdx == 4

\* the threads that share the array (thread 0 made it), the calls they make
NumThreads == 2
MaxConcOps == 3

Threads == 1..NumThreads
ConcIndices == {ConcIdx[k] : k \in 1..NumConcIdx}
WordIdx(b, index) == index \div WordBits(b.variant)
Last(seq) == seq[Len(seq)]

ConcInit ==
    /\ \E variant \in Variants : cc_bs = BitSet_new(variant, ConcCap)
    /\ cc_hist = [w \in 0..(cc_bs.blocks - 1) |-> << {} >>]
    /\ cc_view = [t \in 0..NumThreads |-> [w \in 0..(cc_bs.blocks - 1) |-> 1]]
    /\ cc_pc = [t \in Threads |-> "run"]
    /\ cc_main = "spawned"
    /\ cc_ops = 0
    /\ cc_ins = {}
    /\ cc_seen = [t \in Threads |-> {}]
    /\ cc_bad = {}
    /\ cc_final = {}

\* a thread calls insert(index): the fetch_or on the word
ConcInsert ==
    /\ cc_main = "spawned" /\ cc_ops < MaxConcOps
    /\ \E t \in Threads, index \in ConcIndices :
          /\ cc_pc[t] = "run"
          /\ BitSet_access(cc_bs, index, FALSE) = "ok"
          /\ LET w  == WordIdx(cc_bs, index)
                 nb == BitSet_insert(cc_bs, index)
                 h  == IF WordOf(nb, index) = Last(cc_hist[w]) THEN cc_hist[w]
                       ELSE Append(cc_hist[w], WordOf(nb, index))
             IN  /\ cc_bs' = nb
                 /\ cc_hist' = [cc_hist EXCEPT ![w] = h]
                 /\ cc_view' = [cc_view EXCEPT ![t][w] = Len(h)]
                 /\ cc_ins' = cc_ins \cup {index}
                 /\ cc_seen' = [cc_seen EXCEPT ![t] = @ \cup {index}]
    /\ cc_ops' = cc_ops + 1
    /\ UNCHANGED <<cc_pc, cc_main, cc_bad, cc_final>>
    /\ UNCHANGED notConc

\* the values of word w a load by thread t can return
Loadable(t, w) ==
    IF cc_bs.variant = "stable" THEN cc_view[t][w]..Len(cc_hist[w])
                                ELSE {Len(cc_hist[w])}

\* a thread calls contains(index) while others insert: the load of the word
ConcContains ==
    /\ cc_main = "spawned" /\ cc_ops < MaxConcOps
    /\ \E t \in Threads, index \in ConcIndices :
          /\ cc_pc[t] = "run"
          /\ BitSet_access(cc_bs, index, FALSE) = "ok"
          /\ \E j \in Loadable(t, WordIdx(cc_bs, index)) :
             LET w   == WordIdx(cc_bs, index)
                 val == BitSet_contains([cc_bs EXCEPT !.set = cc_hist[w][j]], index)
             IN  /\ cc_view' = [cc_view EXCEPT ![t][w] = j]
                 /\ cc_seen' = [cc_seen EXCEPT ![t] = IF val THEN @ \cup {index} ELSE @]
                 /\ cc_bad' = cc_bad
                       \cup (IF ~val /\ index \in cc_seen[t] THEN {"cleared"} ELSE {})
                       \cup (IF val /\ index \notin cc_ins THEN {"never inserted"} ELSE {})
    /\ cc_ops' = cc_ops + 1
    /\ UNCHANGED <<cc_bs, cc_hist, cc_pc, cc_main, cc_ins, cc_final>>
    /\ UNCHANGED notConc

\* a thread returns
ConcExit ==
    /\ \E t \in Threads :
          /\ cc_pc[t] = "run"
          /\ cc_pc' = [cc_pc EXCEPT ![t] = "done"]
    /\ UNCHANGED <<cc_bs, cc_hist, cc_view, cc_main, cc_ops, cc_ins, cc_seen, cc_bad, cc_final>>
    /\ UNCHANGED notConc

\* the thread that made the array joins the others: what they wrote
\* happens before what it does next
ConcJoin ==
    /\ cc_main = "spawned"
    /\ \A t \in Threads : cc_pc[t] = "done"
    /\ cc_main' = "joined"
    /\ cc_view' = [cc_view EXCEPT ![0] = [w \in DOMAIN cc_hist |-> Len(cc_hist[w])]]
    /\ UNCHANGED <<cc_bs, cc_hist, cc_pc, cc_ops, cc_ins, cc_seen, cc_bad, cc_final>>
    /\ UNCHANGED notConc

\* contains(index) after the join
ConcFinalContains ==
    /\ cc_main = "joined"
    /\ \E index \in ConcIndices :
          /\ \A v \in BOOLEAN : <<index, v>> \notin cc_final
          /\ BitSet_access(cc_bs, index, FALSE) = "ok"
          /\ \E j \in Loadable(0, WordIdx(cc_bs, index)) :
                cc_final' = cc_final \cup
                    {<<index, BitSet_contains(
                          [cc_bs EXCEPT !.set = cc_hist[WordIdx(cc_bs, index)][j]], index)>>}
    /\ UNCHANGED <<cc_bs, cc_hist, cc_view, cc_pc, cc_main, cc_ops, cc_ins, cc_seen, cc_bad>>
    /\ UNCHANGED notConc

ConcIdle ==
    /\ cc_bs = <<>> /\ cc_hist = <<>> /\ cc_view = <<>> /\ cc_pc = <<>> /\ cc_main = "idle"
    /\ cc_ops = 0 /\ cc_ins = {} /\ cc_seen = <<>> /\ cc_bad = {} /\ cc_final = {}

ConcNext == ConcInsert \/ ConcContains \/ ConcExit \/ ConcJoin \/ ConcFinalContains

-----------------------------------------------------------------------------
(* magic_numbers.rs: one call of check_prime.                              *)

\* the thresholds a call is given: below every candidate, the candidate of
\* the empty masks (1 + 2), the candidate 1 + 2 * R[0], and MIN_N
MinNs == { <<2>>, <<3>>, BigAdd(BigMul(<<2>>, R_prefix[1], 9), <<1>>, 9), MIN_N }

PrimeInit ==
    /\ cp_min_n \in MinNs
    /\ cp_t1 \in {SubSeq(R_prefix, 1, n) : n \in 0..MaxT1}
    /\ cp_t2 \in {SubSeq(R_prefix, 4, 3 + n) : n \in 0..MaxT2}
    /\ cp_t1_mask \in 0..(2 ^ Len(cp_t1) - 1)
    /\ cp_t2_mask \in 0..(2 ^ Len(cp_t2) - 1)
    /\ cp_pc = "call" /\ cp_answer = "not asked" /\ cp_res = None

\* check_prime(&min_n, t1, t2, t1_mask, t2_mask); the oracle is asked when
\* the candidate is above min_n
CallCheckPrime ==
    /\ cp_pc = "call"
    /\ \E result \in IsPrime :
          /\ cp_res' = check_prime(cp_min_n, cp_t1, cp_t2, cp_t1_mask, cp_t2_mask, result)
          /\ cp_answer' = IF check_prime(cp_min_n, cp_t1, cp_t2, cp_t1_mask, cp_t2_mask, "Yes") = None
                          THEN "not asked" ELSE result
    /\ cp_pc' = "returned"
    /\ UNCHANGED <<cp_min_n, cp_t1, cp_t2, cp_t1_mask, cp_t2_mask>>
    /\ UNCHANGED notPrime

PrimeIdle ==
    /\ cp_min_n = <<>> /\ cp_t1 = <<>> /\ cp_t2 = <<>> /\ cp_t1_mask = 0 /\ cp_t2_mask = 0
    /\ cp_pc = "idle" /\ cp_answer = "not asked" /\ cp_res = None

PrimeNext == CallCheckPrime

-----------------------------------------------------------------------------
(* bloomfilter/conc_bloom.rs: one Builder at the full width of usize.  The *)
(* sizes are 8-byte numbers; a filter is its hash states, its mask and the *)
(* capacity its bit array was made with.                                   *)

\* u64::leading_zeros of an 8-byte number
leading_zeros_u64(x) == 64 - Cardinality({i \in 0..63 : \E j \in i..63 : BitOf(x, j) = 1})

\* 1 << k for a shift k below 64
Shl1(k) == [i \in 1..8 |-> IF i = (k \div 8) + 1 THEN 2 ^ (k % 8) ELSE 0]

\* 1 << size_bits as usize: a shift by the width of usize or more panics
\* where overflow checks are compiled in (the debug profile) and shifts by
\* size_bits mod 64 where they are not (the release profile)
shl_usize(size_bits, profile) ==
    IF size_bits < 64 THEN [ok |-> TRUE, val |-> Shl1(size_bits)]
    ELSE IF profile = "debug" THEN [ok |-> FALSE, val |-> <<>>]
    ELSE [ok |-> TRUE, val |-> Shl1(size_bits % 64)]

\* the rounding of Builder::new: size_bits for a size of at least 1
size_bits_of(size) ==
    LET size_bits == 64 - leading_zeros_u64(size) - 1
    IN  IF BigLt(Shl1(size_bits), size) THEN size_bits + 1 ELSE size_bits

\* the Builder made from the shifted size
Builder_of(hash_states, shifted) ==
    [ok |-> shifted.ok, hash_states |-> hash_states, size |-> shifted.val,
     mask |-> IF shifted.ok THEN BigSub(shifted.val, U64(1), 8) ELSE <<>>]

\* Builder::new(size, hashes) at the full width; ok is FALSE when it panics
Builder_new_usize(size, hash_states, profile) ==
    Builder_of(hash_states, shl_usize(size_bits_of(size), profile))

\* Builder::build and Builder::on_node: BitSet::new(self.size) and the
\* fields of the Builder copied
Builder_build_usize(builder) ==
    [hash_states |-> builder.hash_states, capacity |-> builder.size, mask |-> builder.mask]

\* the sizes asked for: small ones, the powers of two and their neighbours,
\* the size of the test, the ends of the range of usize
SizeSamples ==
    << U64(100), BigAdd(Shl1(63), U64(1), 8), U64(1), Shl1(63), U64(256), U64(257),
       BigSub(U64(0), U64(1), 8), U64(2), U64(3), Shl1(39), BigAdd(Shl1(39), U64(1), 8),
       BigSub(Shl1(63), U64(1), 8), U64(255), U64(1000) >>
NumSizeSamples == 13

\* the filters built from one Builder
MaxBuilds == 2

Profiles == {"debug", "release"}

BuilderInit ==
    /\ bd_size \in {SizeSamples[i] : i \in 1..NumSizeSamples}
    /\ bd_hashes \in 1..MaxHashes
    /\ bd_profile \in Profiles
    /\ bd_builder = None
    /\ bd_filters = <<>>
    /\ bd_pc = "call"

\* Builder::new(bd_size, bd_hashes)
CallBuilderNew ==
    /\ bd_pc = "call"
    /\ \E b \in {Builder_new_usize(bd_size, HashStates(0, bd_hashes), bd_profile)} :
          IF b.ok
          THEN bd_builder' = b /\ bd_pc' = "built"
          ELSE bd_builder' = None /\ bd_pc' = "panic"
    /\ UNCHANGED <<bd_size, bd_hashes, bd_profile, bd_filters>>
    /\ UNCHANGED notBuilder

\* builder.build() or builder.on_node(node): the bit array is allocated or
\* the allocation fails and the process ends
CallBuild ==
    /\ bd_pc = "built"
    /\ Len(bd_filters) < MaxBuilds
    /\ \E allocated \in BOOLEAN :
          IF allocated
          THEN /\ bd_filters' = Append(bd_filters, Builder_build_usize(bd_builder))
               /\ UNCHANGED bd_pc
          ELSE /\ bd_pc' = "out of memory"
               /\ UNCHANGED bd_filters
    /\ UNCHANGED <<bd_size, bd_hashes, bd_profile, bd_builder>>
    /\ UNCHANGED notBuilder

BuilderIdle ==
    /\ bd_size = <<>> /\ bd_hashes = 0 /\ bd_profile = "none" /\ bd_builder = None
    /\ bd_filters = <<>> /\ bd_pc = "idle"

BuilderNext == CallBuilderNew \/ CallBuild

-----------------------------------------------------------------------------
(* bloomfilter/mod.rs: how one phase ends when its tasks may panic.  The   *)
(* phase submits MaxTasks tasks to a pool of either variant; bloom_t1 and  *)
(* final_sieve then join the pool, build_t2 receives one vector per task   *)
(* from the channel and never joins.  A task that panics drops its clone   *)
(* of the sender; the sender build_t2 made stays alive in build_t2, so the *)
(* channel is never disconnected and recv() on the empty channel blocks.   *)

Phases == {"bloom_t1", "build_t2", "final_sieve"}

PhaseInit ==
    /\ PoolInit
    /\ ph_kind \in Phases
    /\ ph_chan = <<>>
    /\ ph_recv = 0

\* the task a worker runs returns, a task of build_t2 having sent its
\* vector, or it panics on the way: the panic ends the thread of the numa
\* pool; the simple pool puts a fresh thread in its place
PhaseTaskEnd ==
    /\ \E w \in DOMAIN tp_w, ok \in BOOLEAN :
          /\ tp_w[w].pc = "run"
          /\ tp_task' = [tp_task EXCEPT ![tp_w[w].task] = IF ok THEN "done" ELSE "panicked"]
          /\ tp_w' = [tp_w EXCEPT ![w] =
                        [pc |-> IF ok \/ tp_variant = "simple" THEN "poll" ELSE "dead",
                         task |-> 0]]
          /\ ph_chan' = IF ok /\ ph_kind = "build_t2" THEN Append(ph_chan, tp_w[w].task)
                        ELSE ph_chan
    /\ UNCHANGED <<tp_variant, tp_queue, tp_main, tp_submitted, tp_joined, tp_by>>
    /\ UNCHANGED <<ph_kind, ph_recv>>
    /\ UNCHANGED notPhase

\* pool.join() of bloom_t1 and of final_sieve, once every task is submitted
PhaseJoin ==
    /\ ph_kind # "build_t2"
    /\ tp_submitted = MaxTasks
    /\ PoolJoin

\* one turn of the collector of build_t2: rx.recv().unwrap() returns the
\* vector at the head of the channel
PhaseRecv ==
    /\ ph_kind = "build_t2"
    /\ tp_main = "submit"
    /\ tp_submitted = MaxTasks
    /\ ph_recv < MaxTasks
    /\ ph_chan # <<>>
    /\ ph_chan' = Tail(ph_chan)
    /\ ph_recv' = ph_recv + 1
    /\ UNCHANGED poolVars
    /\ UNCHANGED ph_kind
    /\ UNCHANGED notPhase

\* build_t2 returns its map after one vector per task
PhaseT2Return ==
    /\ ph_kind = "build_t2"
    /\ tp_main = "submit"
    /\ tp_submitted = MaxTasks
    /\ ph_recv = MaxTasks
    /\ tp_main' = "returned"
    /\ UNCHANGED <<tp_variant, tp_queue, tp_w, tp_submitted, tp_joined, tp_by, tp_task>>
    /\ UNCHANGED phaseVars
    /\ UNCHANGED notPhase

PhaseIdle ==
    /\ ph_kind = "none" /\ ph_chan = <<>> /\ ph_recv = 0

PhaseNext ==
    \/ PoolExecute \/ WorkerStart \/ WorkerPoll \/ WorkerWake \/ PhaseTaskEnd
    \/ PhaseJoin \/ PoolJoinThread \/ PoolJoinReturn
    \/ PhaseRecv \/ PhaseT2Return

\* the threads are scheduled by the operating system: the thread that owns
\* the pool and every worker take the step they can take; a wait on the
\* condition variable need not return without a notification
PhaseFairness ==
    /\ WF_vars(PoolExecute \/ PhaseJoin \/ PoolJoinThread \/ PoolJoinReturn
                \/ PhaseRecv \/ PhaseT2Return)
    /\ \A w \in Workers :
          WF_vars((WorkerStart \/ WorkerPoll \/ PhaseTaskEnd) /\ tp_w'[w] # tp_w[w])

-----------------------------------------------------------------------------
(* bloomfilter/conc_bloom.rs: one BitSelector, stepped call by call.       *)

\* BitSelector::next on the hash state hasher: the index returned and the
\* fields locality and local_index after the call
BitSelector_next(item, mask, hasher, locality, local_index) ==
    LET hashed == hash_finish(hasher, item)
        offset == IF locality # None THEN locality[1] ELSE 0
        m      == IF locality # None THEN LOCAL_MASK ELSE mask
        index  == And(hashed, m) + offset
    IN  [index       |-> index,
         local_index |-> local_index + 1,
         locality    |-> IF local_index + 1 >= LOCAL_INDEXES THEN None
                         ELSE <<index - And(index, LOCAL_MASK)>>]

\* the sizes of the filters the selector is made for, the hash counts, the
\* seeds of the hash states and the items
SelSizes == <<512, 256, 1000, 100>>
NumSelSizes == 3
MaxSelHashes == 4
MaxSelSeed == 1
NumSelItems == 4

\* BitSelector::new(val, self.mask, self.hash_states.iter())
SelectorInit ==
    /\ sel_item \in {BloomItems[i] : i \in 1..NumSelItems}
    /\ \E size \in {SelSizes[i] : i \in 1..NumSelSizes},
          seed \in 0..MaxSelSeed, hashes \in 1..MaxSelHashes :
            /\ sel_states = HashStates(seed, hashes)
            /\ sel_mask = Builder_new(size, sel_states).mask
    /\ sel_pos = 0
    /\ sel_locality = None
    /\ sel_local_index = 0
    /\ sel_out = <<>>

\* next() while hash states are left
SelectorStep ==
    /\ sel_pos < Len(sel_states)
    /\ \E r \in {BitSelector_next(sel_item, sel_mask, sel_states[sel_pos + 1],
                                  sel_locality, sel_local_index)} :
          /\ sel_out' = Append(sel_out, r.index)
          /\ sel_locality' = r.locality
          /\ sel_local_index' = r.local_index
    /\ sel_pos' = sel_pos + 1
    /\ UNCHANGED <<sel_item, sel_mask, sel_states>>
    /\ UNCHANGED notSelector

SelectorIdle ==
    /\ sel_item = <<>> /\ sel_mask = 0 /\ sel_states = <<>> /\ sel_pos = 0
    /\ sel_locality = None /\ sel_local_index = 0 /\ sel_out = <<>>

SelectorNext == SelectorStep

-----------------------------------------------------------------------------
(* bloomfilter/mod.rs: the split of the work of bloom_t1 and of build_t2   *)
(* into tasks.  The u64 of the source is scaled to RangeBits bits (a half  *)
(* of up to RangeBits - 1 elements for one of up to 63) and N_TASKS to the *)
(* powers of two up to 2^MaxTaskBits; the arithmetic wraps at the width.   *)

RangeBits == 8
MaxTaskBits == 2

RangeWrap(x) == x % (2 ^ RangeBits)

\* start_idx and end_idx of task i of n_tasks
TaskRangeOf_mutant(n_tasks, i, total_work) ==
    LET per_task  == total_work \div n_tasks
        start_idx == RangeWrap(per_task * i)
    IN  [start |-> start_idx, end |-> RangeWrap(start_idx + per_task)]
TaskRangeOf(n_tasks, i, total_work) ==
    LET per_task  == total_work \div n_tasks
        start_idx == RangeWrap(per_task * i)
    IN  [start |-> start_idx,
         end   |-> IF i = n_tasks - 1 THEN total_work ELSE RangeWrap(start_idx + per_task)]

\* total_work = 1u64 << t.len()
total_work_of(len) == RangeWrap(2 ^ len)

RangeInit ==
    /\ rg_kind \in {"bloom_t1", "build_t2"}
    /\ rg_len \in 0..(RangeBits - 1)
    /\ rg_tasks \in {2 ^ k : k \in 1..MaxTaskBits}
    /\ rg_i = 0
    /\ rg_ranges = <<>>

\* one turn of the loop over the tasks: the range of task rg_i
RangeSubmit ==
    /\ rg_kind \in {"bloom_t1", "build_t2"}
    /\ rg_i < rg_tasks
    /\ rg_ranges' = Append(rg_ranges, TaskRangeOf(rg_tasks, rg_i, total_work_of(rg_len)))
    /\ rg_i' = rg_i + 1
    /\ UNCHANGED <<rg_kind, rg_len, rg_tasks>>
    /\ UNCHANGED notRange

RangeIdle ==
    /\ rg_kind = "none" /\ rg_len = 0 /\ rg_tasks = 0 /\ rg_i = 0 /\ rg_ranges = <<>>

RangeNext == RangeSubmit

-----------------------------------------------------------------------------
(* bloomfilter/conc_bloom.rs, bloomfilter/mod.rs: the filters one thread   *)
(* makes.  bloom_t1 makes one Builder and has the pool call on_node for    *)
(* each node in turn; BloomFilter::new makes a Builder of its own, builds  *)
(* from it and drops it.  Every RandomState::new() takes the keys of the   *)
(* thread and counts the first key up by one.                              *)

\* the Builders held, the filters built from one Builder, the calls of
\* BloomFilter::new
MaxShardBuilders == 1
MaxShards == 2
MaxNews == 2

\* Builder::on_node(node_id): self.build(), the bit array moved to the node
\* and the other fields of the filter copied
Builder_on_node_mutant(builder, variant, node_id) ==
    [hash_states |-> [j \in DOMAIN builder.hash_states |->
                         builder.hash_states[j] + node_id + 1],
     bits |-> Builder_build(builder, variant).bits,
     mask |-> Builder_build(builder, variant).mask]
Builder_on_node(builder, variant, node_id) ==
    [hash_states |-> Builder_build(builder, variant).hash_states,
     bits |-> Builder_build(builder, variant).bits,
     mask |-> Builder_build(builder, variant).mask]

\* BloomFilter::new(size, hashes), hash_states being the RandomStates drawn
BloomFilter_new(size, hash_states, variant) ==
    Builder_build(Builder_new(size, hash_states), variant)

ShardInit ==
    /\ sh_variant \in Variants
    /\ sh_size \in {BloomSizes[i] : i \in 1..NumSizes}
    /\ sh_hashes \in 1..MaxHashes
    /\ sh_key \in 0..MaxSeed
    /\ sh_builders = <<>>
    /\ sh_news = <<>>

\* Builder::new(size, hashes)
ShardBuilderNew ==
    /\ Len(sh_builders) < MaxShardBuilders
    /\ sh_builders' = Append(sh_builders,
          [builder |-> Builder_new(sh_size, HashStates(sh_key, sh_hashes)), filters |-> <<>>])
    /\ sh_key' = sh_key + sh_hashes
    /\ UNCHANGED <<sh_variant, sh_size, sh_hashes, sh_news>>
    /\ UNCHANGED notShard

\* builder.build()
ShardBuild ==
    /\ \E b \in DOMAIN sh_builders :
          /\ Len(sh_builders[b].filters) < MaxShards
          /\ sh_builders' = [sh_builders EXCEPT ![b].filters =
                Append(@, [via |-> "build",
                           f |-> Builder_build(sh_builders[b].builder, sh_variant)])]
    /\ UNCHANGED <<sh_variant, sh_size, sh_hashes, sh_key, sh_news>>
    /\ UNCHANGED notShard

\* builder.on_node(node_id), as the pool of bloom_t1 calls it for the next
\* node
ShardOnNode ==
    /\ \E b \in DOMAIN sh_builders :
          /\ Len(sh_builders[b].filters) < MaxShards
          /\ sh_builders' = [sh_builders EXCEPT ![b].filters =
                Append(@, [via |-> "on_node",
                           f |-> Builder_on_node(sh_builders[b].builder, sh_variant,
                                                 Len(sh_builders[b].filters))])]
    /\ UNCHANGED <<sh_variant, sh_size, sh_hashes, sh_key, sh_news>>
    /\ UNCHANGED notShard

\* BloomFilter::new(size, hashes): Builder::new(size, hashes).build()
ShardBloomFilterNew ==
    /\ Len(sh_news) < MaxNews
    /\ sh_news' = Append(sh_news,
          BloomFilter_new(sh_size, HashStates(sh_key, sh_hashes), sh_variant))
    /\ sh_key' = sh_key + sh_hashes
    /\ UNCHANGED <<sh_variant, sh_size, sh_hashes, sh_builders>>
    /\ UNCHANGED notShard

ShardIdle ==
    /\ sh_variant = "none" /\ sh_size = 0 /\ sh_hashes = 0 /\ sh_key = 0
    /\ sh_builders = <<>> /\ sh_news = <<>>

ShardNext == ShardBuilderNew \/ ShardBuild \/ ShardOnNode \/ ShardBloomFilterNew

-----------------------------------------------------------------------------
(* bloomfilter/mod.rs: final_sieve on its own, called with any halves and  *)
(* any map.  The tasks run their kernels in any order; when the pool is    *)
(* joined the caller prints the counts and returns the results.            *)

\* a - b on usize: the subtraction panics on overflow where overflow checks
\* are compiled in, and wraps where they are not
usize_sub(a, b, profile) ==
    IF BigLt(a, b) /\ profile = "debug" THEN [ok |-> FALSE, val |-> <<>>]
    ELSE [ok |-> TRUE, val |-> BigSub(a, b, 8)]

\* t2map.len() - t3_misses - results.len()
false_positives(len, t3_misses, results_len, profile) ==
    LET d == usize_sub(U64(len), U64(t3_misses), profile)
    IN  IF d.ok THEN usize_sub(d.val, U64(results_len), profile) ELSE d

\* the map of build_t2 with the keys given, the i-th under the mask i - 1
RECURSIVE MapOfKeys(_, _)
MapOfKeys(keys, n) ==
    IF n = 0 THEN <<>> ELSE HashMap_insert(MapOfKeys(keys, n - 1), keys[n], n - 1)

\* the halves T1 the sieve is called with: two elements of R, as in main;
\* an element of R and its inverse mod M, so that the empty subset and the
\* full one have the product 1; and an element of R twice
SieveT1s ==
    { SubSeq(R_prefix, 1, 2),
      <<R_prefix[1], T1_INVERSE(R_prefix)[1]>>,
      <<R_prefix[1], R_prefix[1]>> }

\* the keys of the maps: none, the product 1 of the empty subsets, 1 and
\* the inverse of R[0], and these with two products no T1 subset has
SieveKeys ==
    { <<>>, <<U64(1)>>, <<U64(1), T1_INVERSE(R_prefix)[1]>>,
      <<U64(1), T1_INVERSE(R_prefix)[1], R_prefix[4], R_prefix[5]>> }

SieveInit ==
    /\ \E t1 \in SieveT1s, keys \in SieveKeys :
          /\ fs_in = [t1_forward |-> T1_INVERSE(t1), t2map |-> MapOfKeys(keys, Len(keys)),
                      t1 |-> t1, t2 |-> SubSeq(R_prefix, 4, 5)]
          /\ fs_ps = ProductSet_new(T1_INVERSE(t1), OptiM)
    /\ fs_profile \in Profiles
    /\ fs_it = [task \in 0..(N_TASKS - 1) |->
                  ProductIter_new(fs_ps, FinalRange(task).start, FinalRange(task).end)]
    /\ fs_results = <<>>
    /\ fs_misses = 0
    /\ fs_pc = "run"
    /\ fs_fp = None

\* one turn of the loop of final_sieve_kernel in one of the tasks
SieveStep ==
    /\ fs_pc = "run"
    /\ \E task \in DOMAIN fs_it :
          /\ fs_it[task].next # None
          /\ \E r \in {ProductIter_next(fs_ps, fs_it[task].next, fs_it[task].end)} :
             \E t2_mask \in {HashMap_get(fs_in.t2map, r.item[2])} :
             \E result \in IsPrime :
             \E found \in {IF t2_mask = None THEN None
                            ELSE check_prime(MIN_N, fs_in.t1, fs_in.t2, AsU32(r.item[1]),
                                             t2_mask[1], result)} :
                 /\ fs_it' = [fs_it EXCEPT ![task].next = r.next]
                 /\ fs_results' = IF found # None THEN results_push(fs_results, found[1])
                                  ELSE fs_results
                 /\ fs_misses' = IF t2_mask # None /\ found = None
                                 THEN t3_misses_fetch_add(fs_misses) ELSE fs_misses
    /\ UNCHANGED <<fs_in, fs_profile, fs_ps, fs_pc, fs_fp>>
    /\ UNCHANGED notSieve

\* the pool is joined: the caller prints the counts, the false positives
\* among them, and returns the results
SieveReport ==
    /\ fs_pc = "run"
    /\ \A task \in DOMAIN fs_it : fs_it[task].next = None
    /\ \E fp \in {false_positives(Cardinality(DOMAIN fs_in.t2map), fs_misses,
                                  Len(fs_results), fs_profile)} :
          IF fp.ok THEN fs_pc' = "returned" /\ fs_fp' = <<fp.val>>
          ELSE fs_pc' = "panic" /\ fs_fp' = None
    /\ UNCHANGED <<fs_in, fs_profile, fs_ps, fs_it, fs_results, fs_misses>>
    /\ UNCHANGED notSieve

SieveIdle ==
    /\ fs_in = <<>> /\ fs_profile = "none" /\ fs_ps = <<>> /\ fs_it = <<>>
    /\ fs_results = <<>> /\ fs_misses = 0 /\ fs_pc = "idle" /\ fs_fp = None

SieveNext == SieveStep \/ SieveReport

-----------------------------------------------------------------------------
(* progress.rs: one reporter and the handles of the threads that report to *)
(* it.  report, push and drop run on the thread of the handle; report_up   *)
(* and display read and write the atomics of the reporter one at a time,   *)
(* so the calls of different handles interleave between these accesses.    *)
(* A panic in report unwinds the thread, which drops the handle; a panic   *)
(* during that unwinding aborts the process.                               *)

\* ProgressReporter::handle and ProgressReporter::new: the first intervals;
\* display: the least interval
HANDLE_INTERVAL == 10000
REPORTER_INTERVAL == 1000
MIN_INTERVAL == 100

\* the handles, the calls of report on each
NumHandles == 2
MaxReports == 2

\* the increments passed to report, the totals the reporter is made with
Increments == {1, 2500, 10000}
Totals == {10000, 40000}

\* push: the milliseconds since the last report of the handle, and the
\* interval scaled by the ratio 1 / elapsed clamped to [0.25, 4.0]
ElapsedMs == {0, 1, 4}
scaled_interval(interval, elapsed) ==
    IF elapsed = 0 THEN interval * 4
    ELSE IF elapsed = 1 THEN interval
    ELSE interval \div 4

\* display: the interval it proposes, the measured rate clamped to
\* [100, 4 * old_interval]
new_intervals(old_interval) ==
    {MIN_INTERVAL, IF old_interval * 4 < MIN_INTERVAL THEN MIN_INTERVAL ELSE old_interval * 4}

\* display: self.total - curval; ok is FALSE when the subtraction panics
remaining(total, curval, profile) ==
    IF curval > total /\ profile = "debug" THEN [ok |-> FALSE] ELSE [ok |-> TRUE]

ProgressInit ==
    /\ pr_total \in Totals
    /\ pr_profile \in Profiles
    /\ pr_interval = REPORTER_INTERVAL
    /\ pr_counter = 0
    /\ pr_h = [h \in 1..NumHandles |->
                 [pc |-> "idle", in |-> "none", interval |-> HANDLE_INTERVAL, local_counter |-> 0,
                  reports |-> 0, count |-> 0, loaded |-> 0, unwinding |-> FALSE]]
    /\ pr_sum = 0
    /\ pr_pc = "run"

\* the handle after report_up has returned: push resets local_counter, drop
\* is over
ReportUpReturns(h) ==
    IF h.in = "push" THEN [h EXCEPT !.pc = "idle", !.in = "none", !.local_counter = 0]
    ELSE [h EXCEPT !.pc = "dropped", !.in = "none"]

\* handle.report(increment), up to the call of report_up in push
ProgressReport ==
    /\ pr_pc = "run"
    /\ \E h \in DOMAIN pr_h, increment \in Increments, elapsed \in ElapsedMs :
          /\ pr_h[h].pc = "idle"
          /\ pr_h[h].reports < MaxReports
          /\ pr_sum' = pr_sum + increment
          /\ pr_h' = [pr_h EXCEPT ![h] =
                IF pr_h[h].local_counter + increment >= pr_h[h].interval
                THEN [@ EXCEPT !.pc = "load", !.in = "push",
                               !.interval = scaled_interval(pr_h[h].interval, elapsed),
                               !.local_counter = pr_h[h].local_counter + increment,
                               !.count = pr_h[h].local_counter + increment,
                               !.reports = pr_h[h].reports + 1]
                ELSE [@ EXCEPT !.local_counter = pr_h[h].local_counter + increment,
                               !.reports = pr_h[h].reports + 1]]
    /\ UNCHANGED <<pr_total, pr_profile, pr_interval, pr_counter, pr_pc>>
    /\ UNCHANGED notProgress

\* the handle goes out of scope: drop calls report_up(local_counter)
ProgressDrop ==
    /\ pr_pc = "run"
    /\ \E h \in DOMAIN pr_h :
          /\ pr_h[h].pc = "idle"
          /\ pr_h' = [pr_h EXCEPT ![h] =
                [@ EXCEPT !.pc = "load", !.in = "drop", !.count = pr_h[h].local_counter]]
    /\ UNCHANGED <<pr_total, pr_profile, pr_interval, pr_counter, pr_sum, pr_pc>>
    /\ UNCHANGED notProgress

\* report_up: self.interval.load
ProgressLoad ==
    /\ pr_pc = "run"
    /\ \E h \in DOMAIN pr_h :
          /\ pr_h[h].pc = "load"
          /\ pr_h' = [pr_h EXCEPT ![h] = [@ EXCEPT !.pc = "add", !.loaded = pr_interval]]
    /\ UNCHANGED <<pr_total, pr_profile, pr_interval, pr_counter, pr_sum, pr_pc>>
    /\ UNCHANGED notProgress

\* report_up: self.counter.fetch_add(count) and the test for a crossing of
\* a whole interval
ProgressAdd ==
    /\ pr_pc = "run"
    /\ \E h \in DOMAIN pr_h :
          /\ pr_h[h].pc = "add"
          /\ pr_counter' = pr_counter + pr_h[h].count
          /\ pr_h' = [pr_h EXCEPT ![h] =
                IF pr_counter \div pr_h[h].loaded # (pr_counter + pr_h[h].count) \div pr_h[h].loaded
                THEN [@ EXCEPT !.pc = "display"]
                ELSE ReportUpReturns(@)]
    /\ UNCHANGED <<pr_total, pr_profile, pr_interval, pr_sum, pr_pc>>
    /\ UNCHANGED notProgress

\* display: the counter is loaded, the interval is swapped if it is still
\* the one report_up loaded, and the line is printed; the computation of
\* the time remaining may panic
ProgressDisplay ==
    /\ pr_pc = "run"
    /\ \E h \in DOMAIN pr_h : \E new_interval \in new_intervals(pr_h[h].loaded) :
          /\ pr_h[h].pc = "display"
          /\ pr_interval' = IF pr_interval = pr_h[h].loaded THEN new_interval ELSE pr_interval
          /\ IF remaining(pr_total, pr_counter, pr_profile).ok
             THEN /\ pr_h' = [pr_h EXCEPT ![h] = ReportUpReturns(@)]
                  /\ UNCHANGED pr_pc
             ELSE IF pr_h[h].unwinding
             THEN /\ pr_pc' = "abort"
                  /\ UNCHANGED pr_h
             ELSE IF pr_h[h].in = "drop"
             THEN /\ pr_h' = [pr_h EXCEPT ![h] = [@ EXCEPT !.pc = "dropped", !.in = "none"]]
                  /\ UNCHANGED pr_pc
             ELSE /\ pr_h' = [pr_h EXCEPT ![h] =
                        [@ EXCEPT !.pc = "load", !.in = "drop", !.unwinding = TRUE,
                                  !.count = pr_h[h].local_counter]]
                  /\ UNCHANGED pr_pc
    /\ UNCHANGED <<pr_total, pr_profile, pr_counter, pr_sum>>
    /\ UNCHANGED notProgress

ProgressIdle ==
    /\ pr_total = 0 /\ pr_profile = "none" /\ pr_interval = 0 /\ pr_counter = 0
    /\ pr_h = <<>> /\ pr_sum = 0 /\ pr_pc = "idle"

ProgressNext ==
    ProgressReport \/ ProgressDrop \/ ProgressLoad \/ ProgressAdd \/ ProgressDisplay

-----------------------------------------------------------------------------
(* The specifications.                                                     *)

InitArith == ArithInit /\ IterIdle /\ BitsIdle /\ BloomIdle /\ PoolIdle /\ PipeIdle /\ ConcIdle /\ PrimeIdle
                     /\ BuilderIdle
                     /\ PhaseIdle
                     /\ SelectorIdle
                     /\ RangeIdle
                     /\ ShardIdle
                     /\ SieveIdle
                     /\ ProgressIdle
SpecArith == InitArith /\ [][ArithNext]_vars

InitIter == IterInit /\ ArithIdle /\ BitsIdle /\ BloomIdle /\ PoolIdle /\ PipeIdle /\ ConcIdle /\ PrimeIdle
                     /\ BuilderIdle
                     /\ PhaseIdle
                     /\ SelectorIdle
                     /\ RangeIdle
                     /\ ShardIdle
                     /\ SieveIdle
                     /\ ProgressIdle
SpecIter == InitIter /\ [][IterNext]_vars

InitBits == BitsInit /\ ArithIdle /\ IterIdle /\ BloomIdle /\ PoolIdle /\ PipeIdle /\ ConcIdle /\ PrimeIdle
                     /\ BuilderIdle
                     /\ PhaseIdle
                     /\ SelectorIdle
                     /\ RangeIdle
                     /\ ShardIdle
                     /\ SieveIdle
                     /\ ProgressIdle
SpecBits == InitBits /\ [][BitsNext]_vars

InitBloom == BloomInit /\ ArithIdle /\ IterIdle /\ BitsIdle /\ PoolIdle /\ PipeIdle /\ ConcIdle /\ PrimeIdle
                     /\ BuilderIdle
                     /\ PhaseIdle
                     /\ SelectorIdle
                     /\ RangeIdle
                     /\ ShardIdle
                     /\ SieveIdle
                     /\ ProgressIdle
SpecBloom == InitBloom /\ [][BloomNext]_vars

InitPool == PoolInit /\ ArithIdle /\ IterIdle /\ BitsIdle /\ BloomIdle /\ PipeIdle /\ ConcIdle /\ PrimeIdle
                     /\ BuilderIdle
                     /\ PhaseIdle
                     /\ SelectorIdle
                     /\ RangeIdle
                     /\ ShardIdle
                     /\ SieveIdle
                     /\ ProgressIdle
SpecPool == InitPool /\ [][PoolNext]_vars
SpecPoolFair == SpecPool /\ PoolFairness

InitPipe == PipeInit /\ ArithIdle /\ IterIdle /\ BitsIdle /\ BloomIdle /\ ConcIdle /\ PrimeIdle
                     /\ BuilderIdle
                     /\ PhaseIdle
                     /\ SelectorIdle
                     /\ RangeIdle
                     /\ ShardIdle
                     /\ SieveIdle
                     /\ ProgressIdle
SpecPipe == InitPipe /\ [][PipeNext]_vars

InitConc == ConcInit /\ ArithIdle /\ IterIdle /\ BitsIdle /\ BloomIdle /\ PoolIdle /\ PipeIdle
                     /\ PrimeIdle
                     /\ BuilderIdle
                     /\ PhaseIdle
                     /\ SelectorIdle
                     /\ RangeIdle
                     /\ ShardIdle
                     /\ SieveIdle
                     /\ ProgressIdle
SpecConc == InitConc /\ [][ConcNext]_vars

InitPrime == PrimeInit /\ ArithIdle /\ IterIdle /\ BitsIdle /\ BloomIdle /\ PoolIdle /\ PipeIdle
                       /\ ConcIdle
                     /\ BuilderIdle
                     /\ PhaseIdle
                     /\ SelectorIdle
                     /\ RangeIdle
                     /\ ShardIdle
                     /\ SieveIdle
                     /\ ProgressIdle
SpecPrime == InitPrime /\ [][PrimeNext]_vars

InitBuilder == BuilderInit /\ ArithIdle /\ IterIdle /\ BitsIdle /\ BloomIdle
                     /\ PoolIdle /\ PipeIdle /\ ConcIdle /\ PrimeIdle
                     /\ PhaseIdle
                     /\ SelectorIdle
                     /\ RangeIdle
                     /\ ShardIdle
                     /\ SieveIdle
                     /\ ProgressIdle
SpecBuilder == InitBuilder /\ [][BuilderNext]_vars

InitPhase == PhaseInit /\ ArithIdle /\ IterIdle /\ BitsIdle /\ BloomIdle
                     /\ PipeIdle /\ ConcIdle /\ PrimeIdle /\ BuilderIdle
                     /\ SelectorIdle
                     /\ RangeIdle
                     /\ ShardIdle
                     /\ SieveIdle
                     /\ ProgressIdle
SpecPhase == InitPhase /\ [][PhaseNext]_vars
SpecPhaseFair == SpecPhase /\ PhaseFairness

InitSelector == SelectorInit /\ ArithIdle /\ IterIdle /\ BitsIdle /\ BloomIdle
                     /\ PoolIdle /\ PipeIdle /\ ConcIdle /\ PrimeIdle /\ BuilderIdle /\ PhaseIdle
                     /\ RangeIdle
                     /\ ShardIdle
                     /\ SieveIdle
                     /\ ProgressIdle
SpecSelector == InitSelector /\ [][SelectorNext]_vars

InitRange == RangeInit /\ ArithIdle /\ IterIdle /\ BitsIdle /\ BloomIdle
                     /\ PoolIdle /\ PipeIdle /\ ConcIdle /\ PrimeIdle /\ BuilderIdle /\ PhaseIdle /\ SelectorIdle
                     /\ ShardIdle
                     /\ SieveIdle
                     /\ ProgressIdle
SpecRange == InitRange /\ [][RangeNext]_vars

InitShard == ShardInit /\ ArithIdle /\ IterIdle /\ BitsIdle /\ BloomIdle
                     /\ PoolIdle /\ PipeIdle /\ ConcIdle /\ PrimeIdle
                     /\ BuilderIdle /\ PhaseIdle /\ SelectorIdle /\ RangeIdle
                     /\ SieveIdle
                     /\ ProgressIdle
SpecShard == InitShard /\ [][ShardNext]_vars

InitSieve == SieveInit /\ ArithIdle /\ IterIdle /\ BitsIdle /\ BloomIdle
                     /\ PoolIdle /\ PipeIdle /\ ConcIdle /\ PrimeIdle
                     /\ BuilderIdle /\ PhaseIdle /\ SelectorIdle /\ RangeIdle /\ ShardIdle
                     /\ ProgressIdle
SpecSieve == InitSieve /\ [][SieveNext]_vars

InitProgress == ProgressInit /\ ArithIdle /\ IterIdle /\ BitsIdle /\ BloomIdle
                     /\ PoolIdle /\ PipeIdle /\ ConcIdle /\ PrimeIdle
                     /\ BuilderIdle /\ PhaseIdle /\ SelectorIdle /\ RangeIdle /\ ShardIdle /\ SieveIdle
SpecProgress == InitProgress /\ [][ProgressNext]_vars

-----------------------------------------------------------------------------
(* Claims.                                                                 *)

\* C3: for all 64-bit a and b (in particular a, b < M, zero operands and
\* products that are exact multiples of M) OptiM.mulmod(a, b) equals
\* (a * b) mod M as the reference 128-bit modulo computes it.
C3_MulmodEqualsReference ==
    op_kind = "mulmod" => op_res = BigMod(BigMul(op_a, op_b, 16), M)

\* C4: the k-th pair yielded over [start, end) is
\* (gray(start + k), subsetprod(gray(start + k))), with the product below
\* the modulus.
C4_YieldsGrayAndSubsetProduct ==
    \A k \in 1..Len(it_out) :
        /\ it_out[k][1] = to_gray(it_start + k - 1)
        /\ it_out[k][2] = subsetprod(to_gray(it_start + k - 1), product_set)
        /\ BigLt(it_out[k][2], product_set.modulus.modulus)

\* a range that does not start at 0 has been enumerated to its end, with
\* steps that multiplied by an element and steps that multiplied by an inverse
C4_Witness ==
    /\ it_pc = "iter" /\ it_next = None
    /\ it_start = 3 /\ it_end = 8 /\ Len(it_out) = 5
    /\ product_set.modulus.kind = "OptiM"

\* C7: after cross_or on two bit arrays of equal length both hold the same
\* bits, namely those set in either before the call, and a second cross_or
\* right after the first changes neither array.
C7_CrossOrIsUnionAndIdempotent ==
    (bs_streak >= 1 /\ bs[1].blocks = bs[2].blocks) =>
        /\ BitSet_content(bs[1]) = BitSet_content(bs[2])
        /\ BitSet_content(bs[1]) = bs_pre[1] \cup bs_pre[2]
        /\ bs_streak >= 2 => /\ BitSet_content(bs[1]) = bs_pre[1]
                             /\ BitSet_content(bs[2]) = bs_pre[2]

\* scenario S2 in the variant that merges by stripes: 1024 bits, {1, 1023}
\* set in A and {0, 512} in B, then two cross_or calls
C7_Witness ==
    /\ bs_streak = 2 /\ bs_pc = "run"
    /\ bs[1].variant = "unstable" /\ bs[1].blocks = 32 /\ bs[2].blocks = 32
    /\ bs[1].set = {0, 1, 512, 1023} /\ bs[2].set = {0, 1, 512, 1023}

C6_CrossOrSharesAnswers ==
    ( /\ bf_ors >= 1 /\ ~bf_dirty
      /\ bf[1].hash_states = bf[2].hash_states /\ bf[1].mask = bf[2].mask
      /\ bf_put[1] \cap bf_put[2] = {} ) =>
        \A i \in 1..Len(BloomItems) : \A lands \in BOOLEAN :
            LET x  == BloomItems[i]
                ra == BloomFilter_maybe_present(bf[1], x, lands)
                rb == BloomFilter_maybe_present(bf[2], x, lands)
            IN  /\ ra = rb
                /\ x \in bf_put[1] \cup bf_put[2] => ra = [res |-> "ok", val |-> TRUE]

\* C10: no task is started twice or by two workers, and when join has
\* returned every task submitted before it was started once and has run to
\* its end.
C10_EveryTaskOnceBeforeJoinReturns ==
    \A t \in 1..Len(tp_by) :
        /\ Len(tp_by[t]) <= 1
        /\ (tp_main = "returned" /\ t <= tp_submitted) =>
                /\ Len(tp_by[t]) = 1
                /\ tp_task[t] \in {"done", "panicked"}

\* the numa pool was given three tasks, both workers ran some, all returned,
\* and join has returned
C10_Witness ==
    /\ tp_variant = "numa" /\ tp_main = "returned" /\ tp_submitted = 3
    /\ \A t \in 1..3 : tp_task[t] = "done"
    /\ tp_by[1] # tp_by[2]

\* the indices of the subsets of a set of n elements
Masks(n) == 0..(2 ^ n - 1)

\* bloom_t1 has just returned: build_t2 has set up its pool and nothing else
\* has happened since
T1Returned ==
    /\ pp_phase = "build_t2" /\ tp_submitted = 0
    /\ \A w \in DOMAIN tp_w : tp_w[w].pc = "start"

\* C1: when bloom_t1 has returned, every shard answers true for every subset
\* product of the set it was given and the shards hold the same bits,
\* whichever workers ran the tasks and however their inserts interleaved.
C1_ShardsCompleteAndIdentical ==
    T1Returned =>
        /\ \A n \in 1..pp_cfg.nodes : \A m \in Masks(Len(pp_cfg.t1)) : \A lands \in BOOLEAN :
              BloomFilter_maybe_present(pp_filters[n],
                    subsetprod(m, ProductSet_new(T1_INVERSE(pp_cfg.t1), OptiM)), lands)
                = [res |-> "ok", val |-> TRUE]
        /\ \A n \in 1..pp_cfg.nodes : pp_filters[n].bits = pp_filters[1].bits

\* bloom_t1 has returned two shards of the four subset products of a set of
\* two elements
C1_Witness ==
    /\ T1Returned
    /\ pp_cfg.nodes = 2 /\ Len(pp_cfg.t1) = 2
    /\ Cardinality(pp_filters[2].bits.set) >= 4

\* C8: the cross-OR finds every T1 task finished and no worker in a task;
\* the tasks of build_t2 run on merged filters; the tasks of final_sieve run
\* with the vectors of all T2 tasks received and inserted; and no task was
\* still running when the next phase set up its pool.
C8_PhasesInOrder ==
    /\ pp_phase = "merge" =>
          /\ \A w \in DOMAIN tp_w : tp_w[w].pc # "run"
          /\ \A t \in 1..N_TASKS : tp_task[t] = "done"
    /\ pp_phase \in {"build_t2", "final_sieve", "done"} =>
          \A n \in 1..pp_cfg.nodes : pp_filters[n].bits = pp_filters[1].bits
    /\ pp_phase \in {"final_sieve", "done"} =>
          /\ Len(pp_recv) = N_TASKS /\ pp_chan = <<>>
          /\ Len(pp_ins) >= 1
    /\ pp_phase # "idle" => ~pp_overlap

\* the run is over, after a merge of two shards that differed and a map
\* that took entries
C8_Witness ==
    /\ pp_phase = "done" /\ pp_cfg.nodes = 2
    /\ Len(pp_ins) >= 3

\* build_t2 has just returned: final_sieve has set up its pool and nothing
\* else has happened since
T2Returned ==
    /\ pp_phase = "final_sieve" /\ tp_submitted = 0
    /\ \A w \in DOMAIN tp_w : tp_w[w].pc = "start"

\* the last position of pp_ins that holds the product q
LastInsert(q) ==
    CHOOSE i \in 1..Len(pp_ins) :
        /\ pp_ins[i][2] = q
        /\ \A j \in (i + 1)..Len(pp_ins) : pp_ins[j][2] # q

\* C9: when build_t2 has returned it has received one vector from each
\* task; the map has a key for every T2 subset product the filter answers
\* positive for, every entry (q, mask) has subsetprod(mask) = q, and the
\* mask kept for q is the one inserted last.
C9_MapOfBuildT2 ==
    T2Returned =>
        LET ps == ProductSet_new(pp_cfg.t2, OptiM)
        IN  /\ Len(pp_recv) = N_TASKS
            /\ {pp_recv[i] : i \in 1..Len(pp_recv)} = 1..N_TASKS
            /\ \A m \in Masks(Len(pp_cfg.t2)) :
                  BloomFilter_maybe_present(pp_filters[1], subsetprod(m, ps), TRUE).val
                      => subsetprod(m, ps) \in DOMAIN pp_map
            /\ \A q \in DOMAIN pp_map :
                  /\ subsetprod(pp_map[q], ps) = q
                  /\ pp_map[q] = pp_ins[LastInsert(q)][1]

\* build_t2 has returned a map in which a later mask replaced an earlier one
\* with the same product
C9_Witness ==
    /\ T2Returned
    /\ \E i, j \in 1..Len(pp_ins) :
          /\ i < j /\ pp_ins[i][2] = pp_ins[j][2] /\ pp_ins[i][1] # pp_ins[j][1]
          /\ pp_map[pp_ins[j][2]] = pp_ins[j][1]

\* the pseudoprimes a brute-force enumeration of all pairs of subsets finds:
\* the products agree modulo M and check_prime accepts the pair
BruteForce ==
    LET ps1 == ProductSet_new(T1_INVERSE(pp_cfg.t1), OptiM)
        ps2 == ProductSet_new(pp_cfg.t2, OptiM)
    IN  {check_prime(MIN_N, pp_cfg.t1, pp_cfg.t2, m1, m2, "Yes")[1] :
            <<m1, m2>> \in {pr \in Masks(Len(pp_cfg.t1)) \X Masks(Len(pp_cfg.t2)) :
                /\ subsetprod(pr[1], ps1) = subsetprod(pr[2], ps2)
                /\ check_prime(MIN_N, pp_cfg.t1, pp_cfg.t2, pr[1], pr[2], "Yes") # None}}

\* C2: a reduced-scale run ends with a result that is not empty and holds
\* every pseudoprime of the brute-force enumeration; no task of final_sieve
\* fails.
C2_ReducedScaleRunFindsAll ==
    /\ pp_phase = "final_sieve" => \A t \in 1..N_TASKS : tp_task[t] # "panicked"
    /\ pp_phase = "done" =>
          /\ pp_results # <<>>
          /\ BruteForce \subseteq {pp_results[i] : i \in 1..Len(pp_results)}

\* C11: an iterator over [start, end) (start <= end <= 2^n, or start = end)
\* yields exactly end - start pairs, and once next() has returned None it
\* yields no further pair; an empty range yields none at all.
C11_YieldsEndMinusStartPairs ==
    it_pc = "iter" =>
        /\ it_start <= it_end
        /\ IF it_next = None
           THEN Len(it_out) = it_end - it_start
           ELSE /\ Len(it_out) = it_next[1] - it_start
                /\ it_next[1] < it_end
        /\ it_nones > 0 => it_next = None /\ Len(it_out) = it_end - it_start

\* a range of four indices that does not start at 0 has been enumerated and
\* next() has since returned None twice
C11_Witness ==
    /\ it_pc = "iter" /\ it_nones >= 2
    /\ it_start = 2 /\ it_end = 6 /\ Len(it_out) = 4

\* u64::count_ones
count_ones(v) == Cardinality({i \in 0..(IntBits - 1) : BitAt(v, i) = 1})

\* C12: two successive masks yielded differ in exactly one bit; its position
\* is 63 - clz(gray(i) XOR gray(i+1)), an index of the set, and the second
\* product is the first times that element (bit set) or its inverse (bit
\* cleared).
C12_SuccessiveMasksDifferInOneBit ==
    \A k \in 1..(Len(it_out) - 1) :
        LET i    == it_start + k - 1
            diff == Xor(it_out[k][1], it_out[k + 1][1])
            bit  == 63 - leading_zeros(Xor(to_gray(i), to_gray(i + 1)))
        IN  /\ count_ones(diff) = 1
            /\ diff = 2 ^ bit
            /\ bit < Len(product_set.elems)
            /\ it_out[k + 1][2] =
                  mulmod(product_set.modulus, it_out[k][2],
                         IF BitAt(it_out[k + 1][1], bit) = 1
                         THEN product_set.elems[bit + 1]
                         ELSE product_set.inverse[bit + 1])

\* pairs have been yielded with a step that set a bit and a step that
\* cleared one, the bits being different ones
C12_Witness ==
    /\ it_pc = "iter"
    /\ \E j, k \in 1..(Len(it_out) - 1) :
          /\ it_out[j + 1][1] > it_out[j][1]
          /\ it_out[k + 1][1] < it_out[k][1]
          /\ Xor(it_out[j][1], it_out[j + 1][1]) # Xor(it_out[k][1], it_out[k + 1][1])

\* C13: for every k <= n the masks yielded over the index range [0, 2^k)
\* are the numbers of [0, 2^k), each exactly once.
C13_MasksArePermutation ==
    (/\ it_pc = "iter" /\ it_next = None /\ it_start = 0
     /\ \E k \in 0..Len(product_set.elems) : it_end = 2 ^ k) =>
        /\ Len(it_out) = it_end
        /\ {it_out[i][1] : i \in 1..Len(it_out)} = 0..(it_end - 1)
        /\ \A i, j \in 1..Len(it_out) : it_out[i][1] = it_out[j][1] => i = j

\* the range [0, 4) of a set of three elements has been enumerated to its end
C13_Witness ==
    /\ it_pc = "iter" /\ it_next = None /\ it_start = 0 /\ it_end = 4
    /\ Len(product_set.elems) = 3 /\ Len(it_out) = 4

\* C14: ProductIter::new panics whenever the set has 64 elements or more,
\* whenever end > 2^n and whenever start > end, start = end included.
C14_NewPanicsOnInvalidRange ==
    (/\ it_pc \in {"iter", "panic"}
     /\ \/ Len(product_set.elems) >= 64
        \/ it_end > 2 ^ Len(product_set.elems)
        \/ it_start > it_end) => it_pc = "panic"

\* C15: however the insert and contains calls of several threads on a fresh
\* bit array interleave (indices within the array), no bit of a word is
\* ever cleared, no thread is told that a bit it knows to be set is clear or
\* that a bit nobody inserted is set, the array holds exactly the inserted
\* indices, and once the threads are joined contains(i) is true exactly for
\* these.
C15_ConcurrentInsertsAreKept ==
    cc_main # "idle" =>
        /\ cc_bad = {}
        /\ \A w \in DOMAIN cc_hist : \A j \in 1..(Len(cc_hist[w]) - 1) :
              cc_hist[w][j] \subseteq cc_hist[w][j + 1]
        /\ BitSet_content(cc_bs) = cc_ins
        /\ \A o \in cc_final : o[2] = (o[1] \in cc_ins)

\* two threads have inserted different bits of one word besides a bit of
\* another word, and after the join contains has answered true and false
C15_Witness ==
    /\ cc_main = "joined"
    /\ {0, 1, 64} \subseteq cc_ins
    /\ \E t, u \in Threads : t # u /\ 0 \in cc_seen[t] /\ 1 \in cc_seen[u]
                             /\ 1 \notin cc_seen[t] /\ 0 \notin cc_seen[u]
    /\ <<1, TRUE>> \in cc_final /\ <<65, FALSE>> \in cc_final

\* C16: for all a, b < M, OptiM.addmod(a, b) is below M, equals
\* (a + b) mod M and agrees with BasicDivisor(M).addmod(a, b), also when
\* a + b is exactly M.
C16_AddmodReduces ==
    (op_kind = "addmod" /\ BigLt(op_a, M) /\ BigLt(op_b, M)) =>
        /\ BigLt(op_res, M)
        /\ op_res = Lo64(BigMod(BigAdd(op_a, op_b, 16), M))
        /\ op_res = BasicDivisor_addmod(M, op_a, op_b)

\* the greatest common divisor of two u64, by remainders
RECURSIVE Gcd(_, _)
Gcd(a, b) == IF BigIsZero(b) \/ Len(a) = 0 THEN a ELSE Gcd(b, BigMod(a, b))

Coprime(a, b) == BigEq(Gcd(a, b), <<1>>)

\* the modulus of the inverse call made
InverseModulus == IF op_kind = "inverse_optim" THEN M ELSE op_b

\* C17: under OptiM and under BasicDivisor (modulus not 0), inverse(v) is
\* Some(w) with w below the modulus and w * v congruent to 1 when v and the
\* modulus are coprime, and None otherwise; inverse of an array panics
\* exactly when an element has no inverse, at the first such element; the
\* tabulated inverses are those inverse() returns (they do not depend on the
\* state and are compared in one).
C17_InverseIsModularInverse ==
    /\ (op_kind \in {"inverse_optim", "inverse_basic"} /\ ~BigIsZero(InverseModulus)) =>
          IF Coprime(op_a, InverseModulus)
          THEN /\ op_res.res = "some"
               /\ BigLt(op_res.w, InverseModulus)
               /\ BigMod(BigMul(op_res.w, op_a, 16), InverseModulus)
                     = BigMod(U64(1), InverseModulus)
          ELSE op_res.res = "none"
    /\ op_kind = "inverse_array" =>
          /\ op_res.ok <=> (Coprime(op_a, M) /\ Coprime(op_b, M))
          /\ op_res.at = (IF ~Coprime(op_a, M) THEN 1 ELSE IF ~Coprime(op_b, M) THEN 2 ELSE 0)
          /\ op_res.ok => \A i \in 1..2 :
                BigMod(BigMul(op_res.ys[i], <<op_a, op_b>>[i], 16), M) = U64(1)
    /\ (op_kind = "inverse_array" /\ op_a = R_prefix[1] /\ op_b = R_prefix[1]) =>
          \A e \in ModInverseTable :
              Modulus_inverse(e.m, e.v) =
                  (IF e.w = None THEN [res |-> "none", w |-> <<>>]
                                 ELSE [res |-> "some", w |-> e.w])

\* OptiM has inverted R[0], whose inverse is neither 1 nor R[0]
C17_Witness ==
    /\ op_kind = "inverse_optim" /\ op_a = R_prefix[1]
    /\ op_res.res = "some" /\ op_res.w # op_a /\ BigLt(U64(1), op_res.w)

\* C18 as stated: inverse(2) under M returns a w with 2w mod M = 1.
C18_InverseOfTwoExists ==
    (op_kind = "inverse_optim" /\ op_a = U64(2)) =>
        /\ op_res.res = "some"
        /\ BigMod(BigMul(op_res.w, U64(2), 16), M) = U64(1)

\* C18 amended: M is even, so 2 has no inverse under M: inverse(2) returns
\* None, and 2w mod M is 1 for none of the operands w.
C18_InverseOfTwoIsNone ==
    (op_kind = "inverse_optim" /\ op_a = U64(2)) =>
        /\ op_res.res = "none"
        /\ M[1] % 2 = 0
        /\ \A w \in Operands : BigMod(BigMul(w, U64(2), 16), M) # U64(1)

\* OptiM{}.inverse(2) has returned
C18_Witness ==
    op_kind = "inverse_optim" /\ op_a = U64(2) /\ op_res.res = "none"

\* the T1 subsets whose product is a key of the map of build_t2 (pp_ps is
\* the product set of T1_INVERSE once final_sieve has begun)
FinalHits == {m \in Masks(Len(pp_cfg.t1)) : subsetprod(m, pp_ps) \in DOMAIN pp_map}

\* the candidate of the T1 subset m of FinalHits, were the oracle to accept it
FinalCandidate(m) ==
    check_prime(MIN_N, pp_cfg.t1, pp_cfg.t2, m, pp_map[subsetprod(m, pp_ps)], "Yes")

\* C19: in final_sieve, with the ranges of the tasks covering the subsets of
\* T1 as in main (2^|T1| = N_TASKS^2), the results never hold a candidate
\* twice; when final_sieve returns, every result is the candidate of a T1
\* subset whose product is a key of the map and which is above MIN_N, and
\* every T1 subset whose product is a key is in the results exactly once or
\* was counted once as a miss, whatever the order in which the workers
\* pushed: nothing is lost, nothing is counted twice.
C19_HitsPushedOnceMissesCounted ==
    (pp_phase \in {"final_sieve", "done"} /\ 2 ^ Len(pp_cfg.t1) = N_TASKS * N_TASKS) =>
        /\ \A i, j \in 1..Len(pp_results) : i # j => pp_results[i] # pp_results[j]
        /\ pp_phase = "done" =>
              \E cand \in {[m \in FinalHits |-> FinalCandidate(m)]} :
                  /\ \A i \in 1..Len(pp_results) :
                        \E m \in DOMAIN cand : cand[m] = <<pp_results[i]>>
                  /\ Len(pp_results) + pp_misses = Cardinality(DOMAIN cand)
                  /\ pp_misses >= Cardinality({m \in DOMAIN cand : cand[m] = None})

\* final_sieve has returned two results, pushed by two workers, the one of
\* the later task first, and has counted a miss
C19_Witness ==
    /\ pp_phase = "done" /\ 2 ^ Len(pp_cfg.t1) = N_TASKS * N_TASKS
    /\ Len(pp_results) = 2 /\ pp_misses >= 1
    /\ tp_by[1] # tp_by[2]
    /\ \E m1, m2 \in FinalHits :
          /\ FinalCandidate(m1) = <<pp_results[1]>> /\ FinalCandidate(m2) = <<pp_results[2]>>
          /\ to_gray(2) = m1 \/ to_gray(3) = m1
          /\ to_gray(0) = m2 \/ to_gray(1) = m2

\* the elements of array that mask selects, in the order of the array
Selected(array, mask) ==
    LET idx == SelectSeq([i \in 1..Len(array) |-> i], LAMBDA i : BitAt(mask, i - 1) # 0)
    IN  [k \in 1..Len(idx) |-> array[idx[k]]]

\* the product of the numbers of a sequence, at a width that holds it
RECURSIVE ProductOf(_)
ProductOf(xs) ==
    IF xs = <<>> THEN <<1>>
    ELSE BigMul(xs[1], ProductOf(Tail(xs)), 8 * Len(xs) + 1)

\* C20: check_prime returns a Pseudoprime only when n > min_n and the oracle
\* answered Probably or Yes; what it returns has factors = [2], then the
\* elements of T1 that t1_mask selects, then those of T2 that t2_mask
\* selects, and n - 1 is the product of the factors; a candidate with
\* n <= min_n is rejected, and so is one the oracle answers No to.
C20_CheckPrimeContract ==
    cp_pc = "returned" =>
        LET factors == <<U64(2)>> \o Selected(cp_t1, cp_t1_mask) \o Selected(cp_t2, cp_t2_mask)
            n       == BigAdd(ProductOf(factors), <<1>>, 8 * Len(factors) + 2)
        IN  /\ cp_res # None =>
                  /\ BigLt(cp_min_n, n)
                  /\ cp_answer \in {"Probably", "Yes"}
                  /\ cp_res[1].factors = factors
                  /\ BigEq(cp_res[1].pseudoprime, n)
                  /\ BigEq(BigSub(cp_res[1].pseudoprime, <<1>>, Len(cp_res[1].pseudoprime)),
                           ProductOf(cp_res[1].factors))
            /\ ~BigLt(cp_min_n, n) => cp_res = None /\ cp_answer = "not asked"
            /\ cp_answer = "No" => cp_res = None

\* a call with elements selected from both halves returned a Pseudoprime,
\* its candidate above a min_n that is not below every candidate
C20_Witness ==
    /\ cp_pc = "returned" /\ cp_res # None
    /\ cp_t1_mask # 0 /\ cp_t2_mask # 0 /\ cp_t1_mask # 2 ^ Len(cp_t1) - 1
    /\ Len(cp_res[1].factors) = 3
    /\ cp_min_n = MIN_N /\ cp_answer = "Probably"

\* an 8-byte number with exactly one bit set
IsPowerOfTwo(x) == Cardinality({i \in 0..63 : BitOf(x, i) = 1}) = 1

\* C21: for every requested size of at least 1, Builder::new returns a
\* Builder whose size is the smallest power of two that is not below the
\* requested size (an exact power of two is kept), with mask = size - 1 in
\* the Builder and in every filter built from it.
C21_SizeIsNextPowerOfTwo ==
    bd_pc \notin {"idle", "call"} =>
        /\ bd_pc # "panic"
        /\ IsPowerOfTwo(bd_builder.size)
        /\ BigLe(bd_size, bd_builder.size)
        /\ BigLt(ShrBits(bd_builder.size, 1), bd_size)
        /\ BigEq(BigAdd(bd_builder.mask, U64(1), 8), bd_builder.size)
        /\ \A i \in 1..Len(bd_filters) :
              /\ bd_filters[i].mask = bd_builder.mask
              /\ bd_filters[i].capacity = bd_builder.size

\* C22: BloomFilter::cross_or on two filters with unequal masks panics, and
\* no bit of either filter has been modified when it does.
C22_UnequalMasksPanicUntouched ==
    [][(BloomCrossOr /\ bf[1].mask # bf[2].mask) => (bf_pc' = "panic" /\ bf' = bf)]_vars

\* cross_or has panicked on filters of unequal masks that hold bits (with
\* the huge-page bit arrays no other call of the model panics)
C22_Witness ==
    /\ bf_pc = "panic"
    /\ bf[1].mask # bf[2].mask
    /\ bf[1].bits.variant = "unstable"
    /\ bf[1].bits.set # {} /\ bf[2].bits.set # {}

\* C23: cross_or on two bit arrays of unequal length aborts, in both
\* variants of the bit array; it never merges a prefix and returns.
C23_UnequalLengthsAbort ==
    [][(BitsCrossOr /\ bs[1].blocks # bs[2].blocks) => (bs_pc' = "panic" /\ bs' = bs)]_vars

\* a task of the phase has panicked
TaskPanicked == \E t \in DOMAIN tp_task : tp_task[t] = "panicked"

\* C24: once a task of a phase has panicked the process terminates (the
\* thread that runs the phase panics): the phase neither waits forever, the
\* collector of build_t2 on its channel included, nor returns results.
C24_TaskFailureTerminates == TaskPanicked ~> (tp_main = "panic")

\* C25: the iterator over the ProductSet of [3, 5, 7, 11] with modulus
\* 1000003 and the range [0, 16) yields 16 pairs; the first is (mask 0,
\* product 1) and the last, at index 15, is (mask 8, product 11).
C25_ScenarioS1 ==
    (/\ product_set.ok /\ product_set.elems = S1_elems
     /\ product_set.modulus = BasicDivisor(U64(1000003))
     /\ it_start = 0 /\ it_end = 16 /\ it_pc = "iter") =>
        /\ Len(it_out) <= 16
        /\ it_next = None <=> Len(it_out) = 16
        /\ Len(it_out) >= 1 => it_out[1] = <<0, U64(1)>>
        /\ Len(it_out) = 16 => it_out[16] = <<8, U64(11)>>

\* the iterator of the scenario is exhausted and has answered None since
C25_Witness ==
    /\ product_set.ok /\ product_set.elems = S1_elems
    /\ product_set.modulus = BasicDivisor(U64(1000003))
    /\ it_start = 0 /\ it_end = 16 /\ it_pc = "iter"
    /\ it_next = None /\ it_nones >= 1
    /\ Len(it_out) = 16 /\ it_out[16] = <<8, U64(11)>>

\* C26: for every filter size, those below 256 bits included, and every
\* item, each bit index that put and maybe_present derive lies in
\* [0, size), so that no access falls outside the bit array.
C26_IndicesWithinSize ==
    \A w \in 1..Len(bf) : \A v \in bf_put[w] :
        \A j \in 1..Len(bf[w].hash_states) : BitSelector(bf[w], v)[j] < bf[w].mask + 1

\* the 256-bit-aligned window of a bit index
Window(index) == index \div (LOCAL_MASK + 1)

\* C27: with bunches of 2, the indices of every pair of successive hashes
\* (1st and 2nd, 3rd and 4th, ...) lie in one 256-bit-aligned window: after
\* a bunch the next hash selects a window over the whole array and the hash
\* after it is placed inside that window.
C27_PairsShareWindow ==
    \A i \in 1..(Len(sel_out) \div 2) : Window(sel_out[2 * i - 1]) = Window(sel_out[2 * i])

\* the indices of the range of task t of the phase
RangeOf(t) == PhaseRange(t).start..(PhaseRange(t).end - 1)

\* C28: the index ranges of the tasks of final_sieve are pairwise disjoint
\* and their union is [0, 2^|T1|), whatever the size of T1: every subset of
\* T1 is enumerated once and no range passes 2^|T1|.
C28_FinalRangesPartition ==
    (pp_phase = "final_sieve" /\ tp_submitted = N_TASKS) =>
        /\ \A a, b \in 1..N_TASKS : a # b => RangeOf(a) \cap RangeOf(b) = {}
        /\ UNION {RangeOf(t) : t \in 1..N_TASKS} = 0..(2 ^ Len(pp_cfg.t1) - 1)

\* the indices of the i-th range submitted
Indices(i) == rg_ranges[i].start..(rg_ranges[i].end - 1)

\* C29: in bloom_t1 and build_t2, for every half that 1u64 << len can
\* address, the ranges of the tasks are pairwise disjoint and cover
\* [0, W) exactly, W = 2^len; when W is below the number of tasks every
\* task but the last has an empty range.
C29_TaskRangesPartition ==
    /\ \A a, b \in 1..Len(rg_ranges) : a # b => Indices(a) \cap Indices(b) = {}
    /\ \A a \in 1..Len(rg_ranges) : rg_ranges[a].start <= rg_ranges[a].end
    /\ (rg_kind # "none" /\ rg_i = rg_tasks) =>
          /\ UNION {Indices(a) : a \in 1..rg_tasks} = 0..(2 ^ rg_len - 1)
          /\ 2 ^ rg_len < rg_tasks => \A a \in 1..(rg_tasks - 1) : Indices(a) = {}

\* four tasks for a half of one element: three empty ranges and [0, 2)
C29_Witness ==
    /\ rg_kind = "build_t2" /\ rg_len = 1 /\ rg_tasks = 4 /\ rg_i = 4
    /\ rg_ranges[3] = [start |-> 0, end |-> 0]
    /\ rg_ranges[4] = [start |-> 0, end |-> 2]

\* the estimate q, the quotient t = v / M and the difference d = v - q * M
\* satisfy q <= t <= q + 1 and 0 <= d < 2 * M
WithinOne(q, t, d) ==
    /\ BigLe(q, t)
    /\ BigLe(t, BigAdd(q, <<1>>, 16))
    /\ ~IsNegI128(d)
    /\ BigLt(d, BigMul(M, <<2>>, 9))

\* C30: for a, b < M and v = a * b the quotient estimate q of reduce_m
\* satisfies q <= floor(v / M) <= q + 1, so that v - q * M lies in
\* [0, 2M) and one subtraction of M at most is needed.
C30_QuotientEstimateWithinOne ==
    (op_kind = "mulmod" /\ BigLt(op_a, M) /\ BigLt(op_b, M)) =>
        \A v \in {BigMul(op_a, op_b, 16)} : \A q \in {reduce_m_quot(v)} :
            WithinOne(q, BigDivMod(v, M).q, BigSub(v, BigMul(q, M, 16), 16))

\* mulmod(M - 1, M - 1) has returned: the estimate is one below the quotient
C30_Witness ==
    /\ op_kind = "mulmod"
    /\ op_a = BigSub(M, <<1>>, 8) /\ op_b = op_a
    /\ BigEq(BigAdd(reduce_m_quot(BigMul(op_a, op_b, 16)), <<1>>, 16),
             BigDivMod(BigMul(op_a, op_b, 16), M).q)
    /\ op_res = U64(1)

\* C31: in the numa pool the Join token, once pushed, stays in the queue;
\* and from the moment join has pushed it, unless a thread of the pool has
\* panicked, join comes to return with every worker exited on the token
\* and one pair made for every node.
SentinelQueued(queue) == \E i \in DOMAIN queue : queue[i] = Join

AnyDead == \E w \in DOMAIN tp_w : tp_w[w].pc = "dead"

C31_SentinelStaysAllExitJoinReturns ==
    /\ [][(tp_variant = "numa" /\ SentinelQueued(tp_queue)) => SentinelQueued(tp_queue')]_vars
    /\ (tp_variant = "numa" /\ tp_main = "joining")
          ~> (\/ AnyDead
              \/ /\ tp_main = "returned"
                 /\ \A w \in DOMAIN tp_w : tp_w[w].pc = "exited"
                 /\ SentinelQueued(tp_queue)
                 /\ \A n \in PoolNodes : ThreadPool_join_nodes[n] = "pair")

C31_Witness ==
    /\ tp_variant = "numa"
    /\ tp_main = "returned"
    /\ tp_submitted = MaxTasks
    /\ \A t \in DOMAIN tp_task : tp_task[t] = "done"
    /\ \A w \in DOMAIN tp_w : tp_w[w].pc = "exited"
    /\ SentinelQueued(tp_queue)
    /\ Cardinality({w \in DOMAIN tp_w : Len(SelectSeq(tp_by[1] \o tp_by[2] \o tp_by[3], LAMBDA x : x = w)) > 0}) = 2

\* C32: the filters built from one Builder, by build or by on_node, carry
\* the hash states and the mask of the Builder and yield the same sequence
\* of bit indices for every item; two filters from separate calls of
\* BloomFilter::new have no hash state in common, each call having drawn
\* its own.
ShardFilters(b) == {sh_builders[b].filters[i].f : i \in DOMAIN sh_builders[b].filters}

OwnDraws(x, y) ==
    \A i \in DOMAIN x.hash_states, j \in DOMAIN y.hash_states :
        x.hash_states[i] # y.hash_states[j]

C32_ShardsShareSeedsNewDrawsOwn ==
    /\ \A b \in DOMAIN sh_builders :
          /\ \A f \in ShardFilters(b) :
                /\ f.hash_states = sh_builders[b].builder.hash_states
                /\ f.mask = sh_builders[b].builder.mask
          /\ \A i \in 1..NumItems :
                Cardinality({BitSelector(sh_builders[b].filters[k].f, BloomItems[i]) :
                                k \in DOMAIN sh_builders[b].filters}) <= 1
    /\ \A i, j \in DOMAIN sh_news : i # j => OwnDraws(sh_news[i], sh_news[j])

C32_Witness ==
    /\ \E b \in DOMAIN sh_builders : \E i, j \in DOMAIN sh_builders[b].filters :
          /\ sh_builders[b].filters[i].via = "build"
          /\ sh_builders[b].filters[j].via = "on_node"
    /\ Len(sh_news) = 2
    /\ sh_news[1].mask = sh_news[2].mask
    /\ sh_hashes = MaxHashes

\* C33: when final_sieve ends, results.len() + t3_misses is at most
\* t2map.len(), so that the count of false positives it prints did not
\* underflow.
C33_CountsWithinMap ==
    fs_pc \in {"returned", "panic"} =>
        /\ Len(fs_results) + fs_misses <= Cardinality(DOMAIN fs_in.t2map)
        /\ fs_pc = "returned"

\* the filter of node 1 with every bit that the filter of some node has
MergedFilter ==
    [pp_filters[1] EXCEPT
        !.bits.set = UNION {pp_filters[n].bits.set : n \in DOMAIN pp_filters}]

\* the T2 masks whose subset product is q
MasksOf(q, ps) == {m \in Masks(Len(pp_cfg.t2)) : subsetprod(m, ps) = q}

\* C34: the keys of the map build_t2 returns are the T2 subset products
\* that the merged filter answers positive for, whatever the order in which
\* the tasks ran, the nodes they ran on and the order their vectors
\* arrived in; a product of one T2 subset only has the mask of that subset,
\* and a product of several has the mask of one of them.
C34_KeySetIndependentOfSchedule ==
    T2Returned =>
        \E ps \in {ProductSet_new(pp_cfg.t2, OptiM)} :
            /\ DOMAIN pp_map =
                  {subsetprod(m, ps) : m \in
                      {x \in Masks(Len(pp_cfg.t2)) :
                          BloomFilter_maybe_present(MergedFilter, subsetprod(x, ps), TRUE).val}}
            /\ \A q \in DOMAIN pp_map : pp_map[q] \in MasksOf(q, ps)

\* build_t2 has returned on a machine of two nodes, the vector of the
\* second task having arrived first, with a product of two T2 subsets in
\* its map under the mask that arrived last
C34_Witness ==
    /\ T2Returned
    /\ pp_cfg.nodes = 2
    /\ pp_recv = <<2, 1>>
    /\ \E q \in DOMAIN pp_map :
          /\ Cardinality(MasksOf(q, ProductSet_new(pp_cfg.t2, OptiM))) = 2
          /\ pp_map[q] = pp_ins[LastInsert(q)][1]
          /\ \E i \in 1..Len(pp_ins) : pp_ins[i][2] = q /\ pp_ins[i][1] # pp_map[q]

\* every handle of the reporter has been dropped
AllDropped == pr_h # <<>> /\ \A h \in DOMAIN pr_h : pr_h[h].pc = "dropped"

\* C35: once every handle has been dropped, the counter of the reporter is
\* the sum of the increments passed to report: no count is lost and none is
\* added twice, whatever the interleaving of report, push and drop.
C35_CounterIsSumOfIncrements ==
    AllDropped => pr_counter = pr_sum

\* C36: in the huge-page variant insert(i) panics for every index
\* i >= max_index(), so no bit at or past max_index() is ever set and no
\* access leaves the arena: every bit an insert has set lies below
\* max_index() and no insert has faulted.
C36_OutOfRangePanics ==
    /\ bs_pc # "fault"
    /\ \A w \in DOMAIN bs :
          bs[w].variant = "unstable" => \A i \in bs[w].set : i < BitSet_max_index(bs[w])

====
